---- MODULE Spec2Model ----
(***************************************************************************)
(* The deployment state machine of pydeployer: DeploymentExecutor.deploy   *)
(* and DeploymentExecutor.rollback (src/src/deployer/executor.py), the     *)
(* entry points that call them (API view, CLI command, GitLab webhook,     *)
(* generic webhook), Deployment.save (src/src/core/models.py) and the      *)
(* process_deployment task it enqueues (src/src/deployer/tasks.py).        *)
(*                                                                         *)
(* Deployments go to one Environment (qa of app1); requests may name other *)
(* projects and environments.  A Deployment row is a                       *)
(* record; its id is its index in the table `deployments`.  Every          *)
(* Model.save() writes the whole in-memory object over the row, so each    *)
(* invocation carries its in-memory copies (ldep, lcur, lprev, lrb).       *)
(*                                                                         *)
(* Spec     : invocations run one at a time, each to completion (the       *)
(*            synchronous CLI/API call), every intermediate state visible; *)
(*            the Celery worker runs process_deployment beside them.       *)
(* SpecConc : after two deploys, two request threads interleave step by    *)
(*            step, each serving one request.                              *)
(* SpecFresh: as Spec, from an environment without Service rows, with the  *)
(*            operator entering health check endpoints.                    *)
(* SpecSweep: as Spec, with the periodic sweep of stuck deployments and     *)
(*            time passing.                                                *)
(* SpecPorts: the port allocator applied to a table of Service rows.       *)
(* SpecEnvs : deploys to two environments of one project interleave in the *)
(*            steps that use the project's repository directory.           *)
(***************************************************************************)
EXTENDS Naturals, Sequences, FiniteSets

VARIABLES
    mode,         \* "seq", "fresh": one request thread; "conc": two request
                  \* threads; "ports": the port allocator alone; "envs":
                  \* deploys to two environments
    portStart,    \* Project.port_start of the project
    envActive,    \* Environment.active of environment qa of project app1
    repo,         \* commit checked out in REPOS_DIR/<project>, "" before the
                  \* clone ("envs" only)
    jobs,         \* per environment: the deploy that runs for it ("envs" only)
    aged,         \* the rows 1..aged were created more than 30 minutes ago
    secrets,      \* Environment.secrets: dict from key to value
    configVars,   \* config['env_vars'] of the deployed config: dict
    envVars,      \* what _prepare_environment_variables returned
    services,     \* table deployer_services: set of rows, key (env, name)
    healthChecks, \* table deployer_health_checks: rows in creation order
    deployments,  \* table deployer_deployments: sequence of rows, id = index
    queue,        \* ids handed to process_deployment.delay and not yet run
    sec,          \* last value of datetime.now() cut to the second (a version)
    releases,     \* release directories that exist under releases/<env>/
    current,      \* target of the `current` symlink, 0 when there is no link
    envConfig,    \* Environment.config: the empty dict or the parsed config
    th,           \* per request thread: position and in-memory objects
    faults,       \* how many external steps have failed so far
    pre,          \* history: the table when the thread's invocation started
    preCurrent,   \* history: `current` when the thread's invocation started
    preReleases   \* history: `releases` when the thread's invocation started

vars == <<mode, portStart, envActive, repo, jobs, aged, secrets, configVars,
          envVars, services, healthChecks, deployments,
          queue, sec, releases, current, envConfig, th, faults, pre,
          preCurrent, preReleases>>

(* what no step of a deploy to environment qa or of a rollback writes *)
EnvVarTables == <<secrets, configVars, envVars>>

Fixed == <<mode, portStart, envActive, repo, jobs, aged, EnvVarTables>>

ServiceTables == <<services, healthChecks>>

(* Environment.config: the default of the field (an empty dict), and the
   parsed deploy config, of which the model keeps whether it declares
   pre_deploy hooks *)
NoConfig == [stored |-> FALSE, pre_deploy |-> FALSE]

ParsedConfig(h) == [stored |-> TRUE, pre_deploy |-> h]

----------------------------------------------------------------------------
(* Bounds of the model *)

MaxDeployments == 5

MaxConcDeployments == 4

MaxFreshDeployments == 3

MaxSweepDeployments == 3

MaxHealthDeployments == 3

(* rows of the table in the run that starts with five deploys done *)
MaxEstablishedDeployments == 7

(* external steps (git, copy, pip, hooks, symlink, probes) that fail in a run *)
MaxFaults == 1

(* the number of pre_deploy hooks of a config that declares hooks *)
MaxHooks == 2

(* _cleanup_old_releases(..., keep=5) *)
Keep == 5

AllThreads == {1, 2}

Threads == IF mode = "conc" THEN AllThreads ELSE {1}

Limit ==
    CASE mode = "conc" -> MaxConcDeployments
      [] mode = "fresh" -> MaxFreshDeployments
      [] mode = "sweep" -> MaxSweepDeployments
      [] mode = "health" -> MaxHealthDeployments
      [] mode \in {"established", "failures"} -> MaxEstablishedDeployments
      [] OTHER -> MaxDeployments

----------------------------------------------------------------------------
(* Deployment rows *)

NonTerminal == {"pending", "cloning", "building", "deploying", "testing"}

NoRow ==
    [status |-> "none", version |-> 0, path |-> 0, completed_at |-> 0,
     rollback_from |-> 0, error |-> ""]

Ids(deps) == 1..Len(deps)

(* Deployment.objects.create(status='pending', version=...) in deploy *)
PendingRow(v) ==
    [status |-> "pending", version |-> v, path |-> 0, completed_at |-> 0,
     rollback_from |-> 0, error |-> ""]

(* Deployment.objects.create(status='deploying', rollback_from=current) *)
RollbackRow(c) ==
    [status |-> "deploying", version |-> 0, path |-> 0, completed_at |-> 0,
     rollback_from |-> c, error |-> ""]

(* Model.save() of an existing object: every field of the row is written *)
Save(deps, id, obj) == [deps EXCEPT ![id] = obj]

(* environment.deployments.filter(status__in=[...non-terminal...]).exists() *)
InProgress(deps) == \E d \in Ids(deps) : deps[d].status \in NonTerminal

Actives(deps) == {d \in Ids(deps) : deps[d].status = "active"}

(* filter(status='active').first() under Meta.ordering = ['-deployed_at']:
   the active row created last, 0 for None *)
CurrentDeployment(deps) ==
    IF Actives(deps) = {} THEN 0
    ELSE CHOOSE d \in Actives(deps) : \A e \in Actives(deps) : e <= d

(* a variant that also takes rows which ended 'failed' *)
CandidatesWithFailed(deps) ==
    {d \in Ids(deps) : deps[d].status \in {"inactive", "failed"}
                        /\ deps[d].completed_at # 0}

Candidates(deps) ==
    {d \in Ids(deps) : deps[d].status = "inactive" /\ deps[d].completed_at # 0}

(* a variant that takes the candidate completed first *)
PreviousDeploymentOldest(deps) ==
    IF Candidates(deps) = {} THEN 0
    ELSE CHOOSE d \in Candidates(deps) :
           \A e \in Candidates(deps) : deps[d].completed_at <= deps[e].completed_at

(* filter(status='inactive', completed_at__isnull=False)
   .order_by('-completed_at').first(), 0 for None *)
PreviousDeployment(deps) ==
    IF Candidates(deps) = {} THEN 0
    ELSE CHOOSE d \in Candidates(deps) :
           \A e \in Candidates(deps) : deps[e].completed_at <= deps[d].completed_at

(* a variant that demotes only the active row created last *)
DemoteNewest(deps, id) ==
    LET others == {d \in Actives(deps) : d # id} IN
      [d \in Ids(deps) |->
          IF d \in others /\ (\A e \in others : e <= d)
          THEN [deps[d] EXCEPT !.status = "inactive"]
          ELSE deps[d]]

(* .exclude(id=deployment.id).filter(status='active').update(status='inactive') *)
DemoteOthers(deps, id) ==
    [d \in Ids(deps) |->
        IF d # id /\ deps[d].status = "active"
        THEN [deps[d] EXCEPT !.status = "inactive"]
        ELSE deps[d]]

(* os.path.exists(current_path): follows the link *)
LinkResolves(cur, rels) == cur # 0 /\ cur \in rels

----------------------------------------------------------------------------
(* Deploys to several environments of one project *)

EnvironmentNames == {"qa", "stage", "prod"}

(* commits of the project's repository; the default branch is at the last *)
Commits == {"c1", "c2", "c3"}

LatestCommit == "c3"

(* no deploy runs for the environment *)
NoJob == [pc |-> "idle", requested |-> "", commit_sha |-> "", release |-> ""]

----------------------------------------------------------------------------
(* Service rows and port allocation *)

(* a Service row; port 0 is the null port, endpoint tells whether
   health_check_endpoint is non-empty, resources stands for the pair
   (max_memory, max_cpu), checked tells whether last_health_check is set *)
ServiceRow(e, n, ty, p) ==
    [env |-> e, name |-> n, type |-> ty, port |-> p, endpoint |-> FALSE,
     enabled |-> TRUE, status |-> "unknown", command |-> "run",
     resources |-> "default", checked |-> FALSE]

(* Service.objects.filter(environment__project=self,
   environment__name=environment).values_list('port', flat=True) *)
UsedPorts(svcs, e) == {r.port : r \in {x \in svcs : x.env = e}}

(* a variant that returns the start port without looking at the ports in
   use *)
NoScan(used, p) == p

(* port = port_start; while port in used_ports: port += 1 *)
RECURSIVE Scan(_, _)
Scan(used, p) == IF p \in used THEN Scan(used, p + 1) ELSE p

(* a variant that allocates the port after the highest one in use *)
GetPortAfterLast(svcs, e, start) ==
    LET used == UsedPorts(svcs, e) \cap {p \in UsedPorts(svcs, e) : p >= start}
    IN  IF used = {} THEN start
        ELSE (CHOOSE m \in used : \A x \in used : x <= m) + 1

(* Project.get_next_available_port(environment) *)
GetNextAvailablePort(svcs, e, start) == Scan(UsedPorts(svcs, e), start)

(* the Service row of environment e named n is replaced by row r *)
SaveService(svcs, e, n, r) ==
    {x \in svcs : ~(x.env = e /\ x.name = n)} \cup {r}

(* if service.service_type == 'django' and not service.port:
       service.port = project.get_next_available_port(environment.name) *)
AssignPort(svcs, r, start) ==
    IF r.type = "django" /\ r.port = 0
    THEN SaveService(svcs, r.env, r.name,
                     [r EXCEPT !.port = GetNextAvailablePort(svcs, r.env, start)])
    ELSE svcs

----------------------------------------------------------------------------
(* Request threads *)

Idle ==
    [pc |-> "idle", op |-> "none", guard |-> FALSE, dep |-> 0, ldep |-> NoRow,
     project |-> "", env |-> "", hooks |-> FALSE, cur |-> 0, lcur |-> NoRow,
     prev |-> 0, lprev |-> NoRow,
     rb |-> 0, lrb |-> NoRow, err |-> "", rerr |-> "", auto |-> FALSE,
     res |-> "none", exc |-> "", steps |-> <<>>,
     file |-> [found |-> FALSE, complete |-> FALSE, pre_deploy |-> FALSE,
               services |-> <<>>],
     seen |-> {}, probes |-> <<>>, reloadFailed |-> {}, hooksRun |-> 0,
     hookFailed |-> 0, pruned |-> {}, pruneFailed |-> {}]

(* the entry points that call DeploymentExecutor.deploy *)
Entries == {"executor", "api", "cli", "gitlab", "generic"}

(* whether the entry point looks for a deployment in progress before it calls
   executor.deploy: api/views.py:143, commands/deploy.py:54,
   webhooks/views.py:145 do; GenericWebhookView.post (webhooks/views.py:309)
   and DeploymentExecutor.deploy itself (executor.py:32-46) do not *)
HasInProgressCheck(e) == e \in {"api", "cli", "gitlab"}

Max(S) == CHOOSE m \in S : \A x \in S : x <= m

(* timezone.now(): only the order of the stamps is observable, so a reading
   is one more than the largest stamp that a row or an in-memory object holds *)
Now ==
    Max({0} \cup {deployments[d].completed_at : d \in Ids(deployments)}
            \cup UNION {{th[t].ldep.completed_at, th[t].lcur.completed_at,
                         th[t].lprev.completed_at, th[t].lrb.completed_at} :
                        t \in AllThreads}) + 1

(* the table has room for one more row *)
Room == Len(deployments) < Limit

(* the sequential specification starts with an environment that was never
   deployed to and whose two web services the operator has registered, each
   with its health_check_endpoint *)
(* an environment without secrets, a config without env_vars, and no call
   of _prepare_environment_variables yet *)
NoEnvVars ==
    /\ secrets = <<>>
    /\ configVars = <<>>
    /\ envVars = [prepared |-> FALSE, vars |-> <<>>]

Init ==
    /\ mode = "seq"
    /\ portStart = 9000
    /\ envActive = TRUE
    /\ repo = ""
    /\ jobs = [e \in EnvironmentNames |-> NoJob]
    /\ aged = 0
    /\ NoEnvVars
    /\ services = {[ServiceRow("qa", n, "django", 0) EXCEPT !.endpoint = TRUE] :
                       n \in {"api", "web"}}
    /\ healthChecks = <<>>
    /\ deployments = <<>>
    /\ queue = {}
    /\ sec = 0
    /\ releases = {}
    /\ current = 0
    /\ envConfig = NoConfig
    /\ th = [t \in AllThreads |-> Idle]
    /\ faults = 0
    /\ pre = [t \in AllThreads |-> <<>>]
    /\ preCurrent = [t \in AllThreads |-> 0]
    /\ preReleases = [t \in AllThreads |-> {}]

(* a completed deploy of version v, as DeployActive/DeployDemote leave it *)
DeployedRow(v, st) ==
    [status |-> st, version |-> v, path |-> v, completed_at |-> v,
     rollback_from |-> 0, error |-> ""]

(* the concurrent specification starts where two deploys, one after the
   other, have left the environment: version 1 inactive, version 2 active and
   linked; then two requests arrive together *)
InitConc ==
    /\ mode = "conc"
    /\ portStart = 9000
    /\ envActive = TRUE
    /\ repo = ""
    /\ jobs = [e \in EnvironmentNames |-> NoJob]
    /\ aged = 0
    /\ NoEnvVars
    /\ services = {ServiceRow("qa", "api", "django", 9000),
                   ServiceRow("qa", "web", "django", 9001)}
    /\ healthChecks = <<>>
    /\ deployments = <<DeployedRow(1, "inactive"), DeployedRow(2, "active")>>
    /\ queue = {}
    /\ sec = 2
    /\ releases = {1, 2}
    /\ current = 2
    /\ envConfig = ParsedConfig(FALSE)
    /\ th = [t \in AllThreads |-> Idle]
    /\ faults = 0
    /\ pre = [t \in AllThreads |-> <<>>]
    /\ preCurrent = [t \in AllThreads |-> 0]
    /\ preReleases = [t \in AllThreads |-> {}]

Set(t, r) == th' = [th EXCEPT ![t] = r]

(* the invocation of thread t enters pipeline step s of deploy
   (executor.py:52-66) and is left as r; `steps` is the history of the steps
   the invocation has entered *)
Step(t, s, r) == th' = [th EXCEPT ![t] = [r EXCEPT !.steps = Append(@, s)]]

(* a variant in which the stage error is noted and the pipeline is not left *)
CaughtAndKept(r, e) == [r EXCEPT !.err = e]

(* the except clause of deploy (executor.py:81): the stage error is caught *)
Caught(r, e) == [r EXCEPT !.pc = "f_mark", !.err = e]

----------------------------------------------------------------------------
(* Entry points *)

(* an external step may fail while the run has faults left *)
CanFail == faults < MaxFaults

Outcomes == IF CanFail THEN BOOLEAN ELSE {TRUE}

(* the step went well (ok) or was one more fault *)
Fault(ok) == faults' = IF ok THEN faults ELSE faults + 1

Hist == <<pre, preCurrent, preReleases>>

(* history variables, kept under the sequential specification only: the table
   and the link as they were when the invocation of thread t started *)
Remember(t) ==
    /\ pre' = [pre EXCEPT ![t] = IF mode # "conc" THEN deployments ELSE <<>>]
    /\ preCurrent' =
           [preCurrent EXCEPT ![t] = IF mode # "conc" THEN current ELSE 0]
    /\ preReleases' =
           [preReleases EXCEPT ![t] = IF mode # "conc" THEN releases ELSE {}]

(* the registered projects: name and the `active` flag *)
ProjectTable ==
    {[name |-> "app1", active |-> TRUE], [name |-> "legacy", active |-> FALSE]}

(* the registered environments; every Deployment of the table belongs to
   environment qa of project app1 *)
EnvironmentTable ==
    {[project |-> "app1", name |-> "qa", active |-> envActive],
     [project |-> "app1", name |-> "stage", active |-> FALSE],
     [project |-> "legacy", name |-> "prod", active |-> TRUE]}

(* the names a request may carry: registered ones and one that is unknown *)
ProjectNames == {"app1", "legacy", "ghost"}

(* a variant that resolves by name alone *)
ResolveByName(p, e) ==
    IF ~\E r \in ProjectTable : r.name = p THEN "Project.DoesNotExist"
    ELSE IF ~\E r \in EnvironmentTable : r.project = p /\ r.name = e
    THEN "Environment.DoesNotExist"
    ELSE ""

(* Project.objects.get(name=p, active=True) and
   project.environments.get(name=e, active=True) (executor.py:36-37): the
   DoesNotExist that is raised, "" when both are found *)
ResolveDeploy(p, e) ==
    IF ~\E r \in ProjectTable : r.name = p /\ r.active
    THEN "Project.DoesNotExist"
    ELSE IF ~\E r \in EnvironmentTable : r.project = p /\ r.name = e /\ r.active
    THEN "Environment.DoesNotExist"
    ELSE ""

(* Project.objects.get(name=p) and project.environments.get(name=e)
   (executor.py:92-93): rollback looks neither `active` flag up *)
ResolveRollback(p, e) ==
    IF ~\E r \in ProjectTable : r.name = p THEN "Project.DoesNotExist"
    ELSE IF ~\E r \in EnvironmentTable : r.project = p /\ r.name = e
    THEN "Environment.DoesNotExist"
    ELSE ""

(* environment.deployments: the rows of environment e of project p; only
   environment qa of app1 has been deployed to *)
DeploymentsOf(p, e) == IF p = "app1" /\ e = "qa" THEN deployments ELSE <<>>

(* the project and environment names that requests carry: any pair of names,
   and the names of the one deployed environment where two requests arrive
   together *)
RequestedNames ==
    IF mode = "conc" THEN {<<"app1", "qa">>}
    ELSE ProjectNames \X EnvironmentNames

(* a deploy request for project p, environment e arrives through an entry
   point *)
StartDeploy(t) ==
    /\ th[t].pc = "idle"
    /\ Room
    /\ queue = {}
    /\ \E e \in Entries : \E r \in RequestedNames :
         Set(t, [Idle EXCEPT !.op = "deploy",
                             !.guard = HasInProgressCheck(e),
                             !.project = r[1],
                             !.env = r[2],
                             !.pc = "d_resolve"])
    /\ Remember(t)
    /\ UNCHANGED <<Fixed, ServiceTables, deployments, queue, sec, releases,
                   current, envConfig, faults>>

(* a rollback request for project p, environment e arrives (API, CLI,
   generic webhook, direct call) *)
StartRollback(t) ==
    /\ th[t].pc = "idle"
    /\ Room
    /\ queue = {}
    /\ \E r \in RequestedNames :
         Set(t, [Idle EXCEPT !.op = "rollback", !.project = r[1],
                             !.env = r[2], !.pc = "r_resolve"])
    /\ Remember(t)
    /\ UNCHANGED <<Fixed, ServiceTables, deployments, queue, sec, releases,
                   current, envConfig, faults>>

(* deploy resolves the Project and the Environment (executor.py:36-37); a
   DoesNotExist leaves deploy through the outer except clause
   (executor.py:85-87), before any row exists *)
DeployResolve(t) ==
    /\ th[t].pc = "d_resolve"
    /\ LET e == ResolveDeploy(th[t].project, th[t].env) IN
         Set(t, IF e # ""
                THEN [th[t] EXCEPT !.pc = "done", !.res = "raised", !.exc = e]
                ELSE [th[t] EXCEPT !.pc = IF th[t].guard
                                          THEN "d_check" ELSE "d_create"])
    /\ UNCHANGED <<Fixed, ServiceTables, deployments, queue, sec, releases,
                   current, envConfig, faults, Hist>>

(* the in-progress check of the API view, the CLI command and the GitLab
   push handler: 409 / CommandError when a non-terminal row exists *)
DeployCheck(t) ==
    /\ th[t].pc = "d_check"
    /\ IF InProgress(deployments)
       THEN Set(t, [th[t] EXCEPT !.pc = "done", !.res = "conflict"])
       ELSE Set(t, [th[t] EXCEPT !.pc = "d_create"])
    /\ UNCHANGED <<Fixed, ServiceTables, deployments, queue, sec, releases,
                   current, envConfig, faults, Hist>>

----------------------------------------------------------------------------
(* DeploymentExecutor.deploy, one action per pipeline step *)

(* datetime.now().strftime("%Y%m%d-%H%M%S") (executor.py:146): the clock cut
   to the second.  A deploy starts in a later second than the deploy before
   it; from the registration on (mode "fresh") it may also start within the
   second of the deploy before it. *)
GenerateVersion ==
    IF mode = "fresh" /\ sec > 0 THEN {sec, sec + 1} ELSE {sec + 1}

(* Deployment.objects.create(status='pending', version=_generate_version()).
   Deployment.save() of a new pending row calls process_deployment.delay(id)
   (models.py:213-215). *)
DeployCreate(t) ==
    /\ th[t].pc = "d_create"
    /\ Room
    /\ \E v \in GenerateVersion :
         /\ sec' = v
         /\ deployments' = Append(deployments, PendingRow(v))
         /\ Set(t, [th[t] EXCEPT !.pc = "d_clone",
                                 !.dep = Len(deployments) + 1,
                                 !.ldep = PendingRow(v)])
    /\ queue' = queue \cup {Len(deployments) + 1}
    /\ UNCHANGED <<Fixed, ServiceTables, releases, current, envConfig,
                   faults, Hist>>

(* _clone_or_update_repo: status 'cloning' is saved, then git clone/fetch
   returns or raises *)
DeployClone(t) ==
    /\ th[t].pc = "d_clone"
    /\ LET o == [th[t].ldep EXCEPT !.status = "cloning"] IN
         /\ deployments' = Save(deployments, th[t].dep, o)
         /\ \E ok \in Outcomes :
              /\ Fault(ok)
              /\ Step(t, "clone",
                      IF ok THEN [th[t] EXCEPT !.pc = "d_checkout", !.ldep = o]
                      ELSE Caught([th[t] EXCEPT !.ldep = o], "git clone failed"))
    /\ UNCHANGED <<Fixed, ServiceTables, queue, sec, releases, current,
                   envConfig, Hist>>

(* _checkout_commit: git checkout / get_commit_info return or raise; on
   success the commit metadata is saved *)
DeployCheckout(t) ==
    /\ th[t].pc = "d_checkout"
    /\ \E ok \in Outcomes :
         /\ Fault(ok)
         /\ IF ok
            THEN /\ deployments' = Save(deployments, th[t].dep, th[t].ldep)
                 /\ Step(t, "checkout", [th[t] EXCEPT !.pc = "d_config"])
            ELSE /\ Step(t, "checkout", Caught(th[t], "git checkout failed"))
                 /\ UNCHANGED deployments
    /\ UNCHANGED <<Fixed, ServiceTables, queue, sec, releases, current,
                   envConfig, Hist>>

(* an entry of the `services` list of the deploy config *)
ServiceConfig(n, ty) ==
    [name |-> n, type |-> ty, enabled |-> TRUE, health_check |-> TRUE,
     command |-> "run", resources |-> "default"]

(* the services that the deploy config of the project declares, each with a
   health_check entry: one web service for the environment that starts
   without Service rows, two web services otherwise *)
DeclaredServices ==
    IF mode = "fresh" THEN <<ServiceConfig("web", "django")>>
    ELSE <<ServiceConfig("api", "django"), ServiceConfig("web", "django")>>

(* what the checked-out repository holds for the environment: whether one of
   deploy-<env>.yaml, deploy-<env>.yml, deploy.yaml, deploy.yml is found,
   whether it has both required keys, and what it declares *)
RepoFiles ==
    {[found |-> FALSE, complete |-> FALSE, pre_deploy |-> FALSE,
      services |-> <<>>],
     [found |-> TRUE, complete |-> FALSE, pre_deploy |-> FALSE,
      services |-> <<>>]}
    \cup {[found |-> TRUE, complete |-> TRUE, pre_deploy |-> h,
           services |-> DeclaredServices] : h \in BOOLEAN}

(* a variant with one message for every configuration error *)
ConfigErrorGeneric(f) ==
    IF f.found /\ f.complete THEN "" ELSE "Missing required field in config"

(* the ValueError of _load_deployment_config (executor.py:221-228), "" when
   the config loads *)
ConfigError(f) ==
    IF ~f.found THEN "No deployment configuration file found"
    ELSE IF ~f.complete THEN "Missing required field in config"
    ELSE ""

(* a variant that stores the parsed file before the required keys are
   looked at *)
StoreConfigWhenFound(cfg, f) ==
    IF f.found THEN ParsedConfig(f.pre_deploy) ELSE cfg

(* Environment.config after _load_deployment_config read file f while it
   was cfg: `environment.config = config; environment.save()` comes after
   both raises (executor.py:221-234) *)
StoreConfig(cfg, f) ==
    IF ConfigError(f) = "" THEN ParsedConfig(f.pre_deploy) ELSE cfg

(* _load_deployment_config: status 'building' is saved; no config file, or a
   config without `name`/`services`, raises ValueError; otherwise the parsed
   config is stored on the Environment *)
DeployConfig(t) ==
    /\ th[t].pc = "d_config"
    /\ LET o == [th[t].ldep EXCEPT !.status = "building"] IN
         /\ deployments' = Save(deployments, th[t].dep, o)
         /\ \E f \in RepoFiles :
              /\ ConfigError(f) # "" => CanFail
              /\ Fault(ConfigError(f) = "")
              /\ IF ConfigError(f) # ""
                 THEN /\ Step(t, "config",
                              Caught([th[t] EXCEPT !.ldep = o, !.file = f],
                                     ConfigError(f)))
                      /\ envConfig' = StoreConfig(envConfig, f)
                 ELSE /\ envConfig' = StoreConfig(envConfig, f)
                      /\ Step(t, "config",
                              [th[t] EXCEPT !.pc = "d_release", !.ldep = o,
                                            !.file = f, !.hooks = f.pre_deploy])
    /\ UNCHANGED <<Fixed, ServiceTables, queue, sec, releases, current, Hist>>

(* _create_release_directory: makedirs(releases/<env>/<version>) and copytree;
   a failing copy leaves the directory behind; on success the path is saved *)
DeployRelease(t) ==
    /\ th[t].pc = "d_release"
    /\ \/ /\ Fault(TRUE)
          /\ releases' = releases \cup {th[t].ldep.version}
          /\ LET o == [th[t].ldep EXCEPT !.path = th[t].ldep.version] IN
               /\ deployments' = Save(deployments, th[t].dep, o)
               /\ Step(t, "release", [th[t] EXCEPT !.pc = "d_runtime", !.ldep = o])
       \/ /\ CanFail
          /\ Fault(FALSE)
          /\ releases' = releases \cup {th[t].ldep.version}
          /\ Step(t, "release", Caught(th[t], "copytree failed"))
          /\ UNCHANGED deployments
       \/ /\ CanFail
          /\ Fault(FALSE)
          /\ Step(t, "release", Caught(th[t], "makedirs failed"))
          /\ UNCHANGED <<deployments, releases>>
    /\ UNCHANGED <<Fixed, ServiceTables, queue, sec, current, envConfig,
                   Hist>>

(* _setup_virtual_environment, _install_dependencies,
   _prepare_environment_variables: no row is written *)
DeployRuntime(t) ==
    /\ th[t].pc = "d_runtime"
    /\ \/ /\ Fault(TRUE)
          /\ Step(t, "runtime", [th[t] EXCEPT !.pc = "d_prehooks"])
       \/ /\ CanFail
          /\ Fault(FALSE)
          /\ Step(t, "runtime", Caught(th[t], "venv create failed"))
       \/ /\ CanFail
          /\ Fault(FALSE)
          /\ Step(t, "runtime", Caught(th[t], "pip install failed"))
    /\ UNCHANGED <<Fixed, ServiceTables, deployments, queue, sec, releases,
                   current, envConfig, Hist>>

(* which hook of a list of n is the first to exit non-zero or to run into
   its timeout: none (0), or any of them while the run has faults left *)
FirstFailures(n) == IF CanFail THEN 0 .. n ELSE {0}

(* a variant in which a failing hook is logged and the next one is run *)
RunHooksIgnoringFailure(n, f) == [ran |-> n, ok |-> TRUE]

(* the loop `for hook in hooks: self._run_hook(...)` over n hooks of which
   hook f is the first to fail (0: none does): _run_hook raises RuntimeError
   for a non-zero exit and for subprocess.TimeoutExpired, which leaves the
   loop; ran counts the hooks that were started *)
RunHooks(n, f) == [ran |-> IF f = 0 THEN n ELSE f, ok |-> f = 0]

(* _run_pre_deploy_hooks: only when the config declares pre_deploy hooks is
   status 'deploying' saved and are the hooks run *)
DeployPreHooks(t) ==
    /\ th[t].pc = "d_prehooks"
    /\ IF th[t].hooks
       THEN LET o == [th[t].ldep EXCEPT !.status = "deploying"] IN
              /\ deployments' = Save(deployments, th[t].dep, o)
              /\ \E f \in FirstFailures(MaxHooks) :
                   LET h == RunHooks(MaxHooks, f)
                       r == [th[t] EXCEPT !.ldep = o, !.hooksRun = h.ran,
                                          !.hookFailed = f]
                   IN  /\ Fault(h.ok)
                       /\ Step(t, "pre_hooks", IF h.ok
                                 THEN [r EXCEPT !.pc = "d_supervisor"]
                                 ELSE Caught(r, "Hook failed"))
       ELSE /\ Step(t, "pre_hooks", [th[t] EXCEPT !.pc = "d_supervisor"])
            /\ UNCHANGED <<deployments, faults>>
    /\ UNCHANGED <<Fixed, ServiceTables, queue, sec, releases, current,
                   envConfig, Hist>>

HasService(svcs, e, n) == \E x \in svcs : x.env = e /\ x.name = n

ServiceOf(svcs, e, n) == CHOOSE x \in svcs : x.env = e /\ x.name = n

(* a variant that makes the table of the environment follow the config: the
   rows of the environment that the entry does not name are disabled *)
UpdateOrCreateAndDisableOthers(svcs, e, c) ==
    LET others == {x \in svcs : x.env = e /\ x.name # c.name}
        kept == (svcs \ others) \cup {[x EXCEPT !.enabled = FALSE] : x \in others}
    IN  IF \E x \in kept : x.env = e /\ x.name = c.name
        THEN {IF x.env = e /\ x.name = c.name
              THEN [x EXCEPT !.type = c.type, !.command = c.command,
                             !.enabled = TRUE, !.resources = c.resources]
              ELSE x : x \in kept}
        ELSE kept \cup {[ServiceRow(e, c.name, c.type, 0) EXCEPT
                            !.command = c.command, !.resources = c.resources]}

(* Service.objects.update_or_create(environment, name, defaults={service_type,
   command, enabled: True, max_memory, max_cpu}): the health_check entry of
   the config is not among the defaults, and a new row has no port and an
   empty health_check_endpoint *)
UpdateOrCreate(svcs, e, c) ==
    IF HasService(svcs, e, c.name)
    THEN SaveService(svcs, e, c.name,
                     [ServiceOf(svcs, e, c.name) EXCEPT
                          !.type = c.type, !.command = c.command,
                          !.enabled = TRUE, !.resources = c.resources])
    ELSE svcs \cup {[ServiceRow(e, c.name, c.type, 0) EXCEPT
                         !.command = c.command, !.resources = c.resources]}

(* the body of the loop of _update_supervisor_configs for the entries cs, in
   order: entries that are not enabled are skipped, the row is created or
   updated and a web service without a port is given one *)
RECURSIVE UpdateServices(_, _, _, _)
UpdateServices(svcs, e, cs, start) ==
    IF cs = <<>> THEN svcs
    ELSE IF ~Head(cs).enabled THEN UpdateServices(svcs, e, Tail(cs), start)
    ELSE LET u == UpdateOrCreate(svcs, e, Head(cs)) IN
           UpdateServices(AssignPort(u, ServiceOf(u, e, Head(cs).name), start),
                          e, Tail(cs), start)

(* _update_supervisor_configs: every enabled entry of the config is written
   to the services table; supervisor_manager.create_config may raise at the
   k-th entry, after the rows of the entries up to it were saved *)
DeploySupervisor(t) ==
    /\ th[t].pc = "d_supervisor"
    /\ LET cs == th[t].file.services IN
         \E ok \in Outcomes :
           /\ Fault(ok)
           /\ IF ok
              THEN /\ services' = UpdateServices(services, th[t].env, cs,
                                                 portStart)
                   /\ Step(t, "supervisor", [th[t] EXCEPT !.pc = "d_nginx"])
              ELSE /\ \E k \in {i \in 1 .. Len(cs) : cs[i].enabled} :
                        services' = UpdateServices(services, th[t].env,
                                                   SubSeq(cs, 1, k), portStart)
                   /\ Step(t, "supervisor",
                           Caught(th[t], "supervisor config failed"))
    /\ UNCHANGED <<Fixed, healthChecks, deployments, queue, sec, releases,
                   current, envConfig, Hist>>

(* _update_nginx_config *)
DeployNginx(t) ==
    /\ th[t].pc = "d_nginx"
    /\ \E ok \in Outcomes :
         /\ Fault(ok)
         /\ Step(t, "nginx", IF ok THEN [th[t] EXCEPT !.pc = "d_unlink"]
                   ELSE Caught(th[t], "nginx config failed"))
    /\ UNCHANGED <<Fixed, ServiceTables, deployments, queue, sec, releases,
                   current, envConfig, Hist>>

(* _switch_symlink, first half: if os.path.exists(current) then os.unlink *)
DeployUnlink(t) ==
    /\ th[t].pc = "d_unlink"
    /\ current' = IF LinkResolves(current, releases) THEN 0 ELSE current
    /\ Step(t, "symlink", [th[t] EXCEPT !.pc = "d_symlink"])
    /\ UNCHANGED <<Fixed, ServiceTables, deployments, queue, sec, releases,
                   envConfig, faults, Hist>>

(* _switch_symlink, second half: os.symlink(deployment_path, current) raises
   FileExistsError when a link is still there, and may fail as any OS call *)
DeploySymlink(t) ==
    /\ th[t].pc = "d_symlink"
    /\ IF current # 0
       THEN /\ Set(t, Caught(th[t], "FileExistsError"))
            /\ UNCHANGED <<current, faults>>
       ELSE \E ok \in Outcomes :
              /\ Fault(ok)
              /\ current' = IF ok THEN th[t].ldep.path ELSE current
              /\ Set(t, IF ok THEN [th[t] EXCEPT !.pc = "d_reload"]
                        ELSE Caught(th[t], "OSError"))
    /\ UNCHANGED <<Fixed, ServiceTables, deployments, queue, sec, releases,
                   envConfig, Hist>>

(* Meta.ordering of Service: the rows of one environment come by name *)
ServiceOrder == <<"admin", "api", "web", "worker">>

(* the sets of services, among those of ns, whose external call (a reload, a
   probe) may go wrong while the run has faults left *)
BadSets(ns) ==
    {b \in SUBSET {ns[i] : i \in 1 .. Len(ns)} :
         faults + Cardinality(b) <= MaxFaults}

(* Service.objects.filter(environment=environment, enabled=True), by name *)
EnabledServices(svcs, e) ==
    SelectSeq(ServiceOrder,
              LAMBDA n : \E x \in svcs : x.env = e /\ x.name = n /\ x.enabled)

(* a variant in which the first reload that raises ends the loop *)
ReloadUntilFailure(svcs, e, bad) ==
    LET ns == EnabledServices(svcs, e)
        first == IF \E i \in 1 .. Len(ns) : ns[i] \in bad
                 THEN CHOOSE i \in 1 .. Len(ns) :
                          ns[i] \in bad /\ \A j \in 1 .. (i - 1) : ns[j] \notin bad
                 ELSE Len(ns)
        done == {ns[i] : i \in 1 .. first}
    IN  {IF x.env = e /\ x.name \in done
         THEN [x EXCEPT !.status = IF x.name \in bad THEN "failed" ELSE "running"]
         ELSE x : x \in svcs}

(* the loop of _reload_services: every enabled Service of the environment is
   reloaded inside its own try/except; its status is saved as 'running', or
   as 'failed' when supervisor_manager.reload_service raised (the services of
   bad) *)
ReloadServices(svcs, e, bad) ==
    {IF x.env = e /\ x.enabled
     THEN [x EXCEPT !.status = IF x.name \in bad THEN "failed" ELSE "running"]
     ELSE x : x \in svcs}

(* _reload_services in deploy: every failure, of a service or of the nginx
   reload, is caught and logged, and the step returns *)
DeployReload(t) ==
    /\ th[t].pc = "d_reload"
    /\ \E bad \in BadSets(EnabledServices(services, th[t].env)) :
         /\ faults' = faults + Cardinality(bad)
         /\ services' = ReloadServices(services, th[t].env, bad)
         /\ Step(t, "reload", [th[t] EXCEPT !.pc = "d_health",
                                            !.reloadFailed = bad])
    /\ UNCHANGED <<Fixed, healthChecks, deployments, queue, sec, releases,
                   current, envConfig, Hist>>

(* the rows that _perform_health_checks probes: the enabled Services of the
   environment of type django with a health_check_endpoint, in table order *)
Probed(svcs, e) ==
    SelectSeq(ServiceOrder,
              LAMBDA n : \E x \in svcs : /\ x.env = e /\ x.name = n
                                         /\ x.enabled /\ x.type = "django"
                                         /\ x.endpoint)

(* the HealthCheck rows of one pass over the probed services ns, the services
   of `bad` answering with another status than 200 or not at all *)
ProbeRows(ns, bad) ==
    [i \in 1 .. Len(ns) |-> [service |-> ns[i], is_healthy |-> ns[i] \notin bad]]

(* a variant in which the last probe decides *)
LastHealthy(rows) == rows = <<>> \/ rows[Len(rows)].is_healthy

(* all_healthy after the loop *)
AllHealthy(rows) == \A i \in 1 .. Len(rows) : rows[i].is_healthy

(* service.last_health_check = timezone.now(); service.save() for every
   enabled Service of the environment *)
MarkChecked(svcs, e) ==
    {IF x.env = e /\ x.enabled THEN [x EXCEPT !.checked = TRUE] ELSE x :
         x \in svcs}

(* _perform_health_checks: status 'testing' is saved; every probed service
   gets a HealthCheck row; a probe that is not answered with 200 makes the
   stage raise RuntimeError("Health checks failed") after the loop *)
DeployHealth(t) ==
    /\ th[t].pc = "d_health"
    /\ LET o == [th[t].ldep EXCEPT !.status = "testing"]
           ns == Probed(services, th[t].env) IN
         /\ deployments' = Save(deployments, th[t].dep, o)
         /\ \E bad \in BadSets(ns) :
              LET rows == ProbeRows(ns, bad)
                  r == [th[t] EXCEPT !.ldep = o, !.seen = services,
                                     !.probes = rows] IN
                /\ faults' = faults + Cardinality(bad)
                /\ healthChecks' = healthChecks \o rows
                /\ services' = MarkChecked(services, th[t].env)
                /\ Step(t, "health",
                        IF AllHealthy(rows)
                        THEN [r EXCEPT !.pc = "d_posthooks"]
                        ELSE Caught(r, "Health checks failed"))
    /\ UNCHANGED <<Fixed, queue, sec, releases, current, envConfig, Hist>>

(* _run_post_deploy_hooks: no status is written; a hook may fail *)
DeployPostHooks(t) ==
    /\ th[t].pc = "d_posthooks"
    /\ \E ok \in Outcomes :
         /\ Fault(ok)
         /\ Step(t, "post_hooks", IF ok THEN [th[t] EXCEPT !.pc = "d_cleanup"]
                   ELSE Caught(th[t], "Hook failed"))
    /\ UNCHANGED <<Fixed, ServiceTables, deployments, queue, sec, releases,
                   current, envConfig, Hist>>

(* a variant that sorts the directories oldest first *)
PrunableNewest(rels) ==
    {r \in rels : Cardinality({q \in rels : q < r}) >= Keep}

(* releases[keep:] of the directories sorted newest first *)
Prunable(rels) ==
    {r \in rels : Cardinality({q \in rels : q > r}) >= Keep}

(* _cleanup_old_releases: rmtree of each prunable directory; a failing rmtree
   is logged and leaves the directory *)
DeployCleanup(t) ==
    /\ th[t].pc = "d_cleanup"
    /\ \E gone \in SUBSET Prunable(releases) :
         /\ releases' = releases \ gone
         /\ Step(t, "prune", [th[t] EXCEPT !.pc = "d_active", !.pruned = gone,
                                           !.pruneFailed =
                                               Prunable(releases) \ gone])
    /\ UNCHANGED <<Fixed, ServiceTables, deployments, queue, sec, current,
                   envConfig, faults, Hist>>

(* executor.py:69-71: status 'active' and completed_at are saved *)
DeployActive(t) ==
    /\ th[t].pc = "d_active"
    /\ LET o == [th[t].ldep EXCEPT !.status = "active", !.completed_at = Now] IN
         /\ deployments' = Save(deployments, th[t].dep, o)
         /\ Set(t, [th[t] EXCEPT !.pc = "d_demote", !.ldep = o])
    /\ UNCHANGED <<Fixed, ServiceTables, queue, sec, releases, current,
                   envConfig, faults, Hist>>

(* executor.py:74-79: the other active rows are set inactive; deploy returns *)
DeployDemote(t) ==
    /\ th[t].pc = "d_demote"
    /\ deployments' = DemoteOthers(deployments, th[t].dep)
    /\ Set(t, [th[t] EXCEPT !.pc = "done", !.res = "ok"])
    /\ UNCHANGED <<Fixed, ServiceTables, queue, sec, releases, current,
                   envConfig, faults, Hist>>

----------------------------------------------------------------------------
(* DeploymentExecutor._handle_deployment_failure and the re-raise of deploy *)

(* executor.py:593-596: status 'failed', the error text and completed_at are
   saved; then rollback(...) is called inside try/except (executor.py:601) *)
FailMark(t) ==
    /\ th[t].pc = "f_mark"
    /\ LET o == [th[t].ldep EXCEPT !.status = "failed", !.error = th[t].err,
                                   !.completed_at = Now] IN
         /\ deployments' = Save(deployments, th[t].dep, o)
         /\ Set(t, [th[t] EXCEPT !.pc = "r_resolve", !.ldep = o, !.auto = TRUE])
    /\ UNCHANGED <<Fixed, ServiceTables, queue, sec, releases, current,
                   envConfig, faults, Hist>>

(* a variant in which an error of the automatic rollback replaces the stage
   error *)
PropagatedLast(e, rerr) == IF rerr # "" THEN rerr ELSE e

(* what deploy raises to its caller after the handler returned: the bare
   `raise` of executor.py:83 re-raises the stage error e; an error of the
   automatic rollback (rerr) was caught and logged at executor.py:609 *)
Propagated(e, rerr) == e

(* executor.py:83 *)
FailReturn(t) ==
    /\ th[t].pc = "f_return"
    /\ Set(t, [th[t] EXCEPT !.pc = "done", !.res = "raised",
                            !.exc = Propagated(th[t].err, th[t].rerr)])
    /\ UNCHANGED <<Fixed, ServiceTables, deployments, queue, sec, releases,
                   current, envConfig, faults, Hist>>

----------------------------------------------------------------------------
(* DeploymentExecutor.rollback, called by a request or by the failure handler *)

(* rollback raises e: the failure handler catches it, a request gets it *)
Raised(r, e) ==
    IF r.auto THEN [r EXCEPT !.pc = "f_return", !.rerr = e]
    ELSE [r EXCEPT !.pc = "done", !.res = "raised", !.exc = e]

(* rollback returns the rollback record *)
Returned(r) ==
    IF r.auto THEN [r EXCEPT !.pc = "f_return"]
    ELSE [r EXCEPT !.pc = "done", !.res = "ok"]

(* executor.py:92-93: rollback resolves the Project and the Environment by
   name; a DoesNotExist is logged and re-raised (executor.py:140-142) *)
RollbackResolve(t) ==
    /\ th[t].pc = "r_resolve"
    /\ LET e == ResolveRollback(th[t].project, th[t].env) IN
         Set(t, IF e # "" THEN Raised(th[t], e)
                ELSE [th[t] EXCEPT !.pc = "r_current"])
    /\ UNCHANGED <<Fixed, ServiceTables, deployments, queue, sec, releases,
                   current, envConfig, faults, Hist>>

(* executor.py:96-98 *)
RollbackCurrent(t) ==
    /\ th[t].pc = "r_current"
    /\ LET c == CurrentDeployment(DeploymentsOf(th[t].project, th[t].env)) IN
         IF c = 0
         THEN Set(t, Raised(th[t], "No active deployment to rollback"))
         ELSE Set(t, [th[t] EXCEPT !.pc = "r_previous", !.cur = c,
                                   !.lcur = deployments[c]])
    /\ UNCHANGED <<Fixed, ServiceTables, deployments, queue, sec, releases,
                   current, envConfig, faults, Hist>>

(* executor.py:100-106 *)
RollbackPrevious(t) ==
    /\ th[t].pc = "r_previous"
    /\ LET p == PreviousDeployment(DeploymentsOf(th[t].project, th[t].env)) IN
         IF p = 0
         THEN Set(t, Raised(th[t], "No previous deployment to rollback to"))
         ELSE Set(t, [th[t] EXCEPT !.pc = "r_create", !.prev = p,
                                   !.lprev = deployments[p]])
    /\ UNCHANGED <<Fixed, ServiceTables, deployments, queue, sec, releases,
                   current, envConfig, faults, Hist>>

(* executor.py:109-116: the rollback record is created with status
   'deploying'; it is not pending, so Deployment.save enqueues nothing *)
RollbackCreate(t) ==
    /\ th[t].pc = "r_create"
    /\ Room
    /\ deployments' = Append(deployments, RollbackRow(th[t].cur))
    /\ Set(t, [th[t] EXCEPT !.pc = "r_unlink", !.rb = Len(deployments) + 1,
                            !.lrb = RollbackRow(th[t].cur)])
    /\ UNCHANGED <<Fixed, ServiceTables, queue, sec, releases, current,
                   envConfig, faults, Hist>>

(* _switch_symlink_to_release, first half *)
RollbackUnlink(t) ==
    /\ th[t].pc = "r_unlink"
    /\ current' = IF LinkResolves(current, releases) THEN 0 ELSE current
    /\ Set(t, [th[t] EXCEPT !.pc = "r_symlink"])
    /\ UNCHANGED <<Fixed, ServiceTables, deployments, queue, sec, releases,
                   envConfig, faults, Hist>>

(* _switch_symlink_to_release, second half: os.symlink(previous.deployment_path,
   current) raises FileExistsError when a link is still there and
   FileNotFoundError for the empty path of a row that never materialized a
   release, and may fail as any OS call *)
RollbackSymlink(t) ==
    /\ th[t].pc = "r_symlink"
    /\ IF current # 0
       THEN /\ Set(t, Raised(th[t], "FileExistsError"))
            /\ UNCHANGED <<current, faults>>
       ELSE IF th[t].lprev.path = 0
       THEN /\ Set(t, Raised(th[t], "FileNotFoundError"))
            /\ UNCHANGED <<current, faults>>
       ELSE \E ok \in Outcomes :
              /\ Fault(ok)
              /\ current' = IF ok THEN th[t].lprev.path ELSE current
              /\ Set(t, IF ok THEN [th[t] EXCEPT !.pc = "r_reload"]
                        ELSE Raised(th[t], "OSError"))
    /\ UNCHANGED <<Fixed, ServiceTables, deployments, queue, sec, releases,
                   envConfig, Hist>>

(* _reload_services in rollback, as in deploy *)
RollbackReload(t) ==
    /\ th[t].pc = "r_reload"
    /\ \E bad \in BadSets(EnabledServices(services, th[t].env)) :
         /\ faults' = faults + Cardinality(bad)
         /\ services' = ReloadServices(services, th[t].env, bad)
         /\ Set(t, [th[t] EXCEPT !.pc = "r_save_current",
                                 !.reloadFailed = bad])
    /\ UNCHANGED <<Fixed, healthChecks, deployments, queue, sec, releases,
                   current, envConfig, Hist>>

(* executor.py:127-128 *)
RollbackSaveCurrent(t) ==
    /\ th[t].pc = "r_save_current"
    /\ LET o == [th[t].lcur EXCEPT !.status = "rolled_back"] IN
         /\ deployments' = Save(deployments, th[t].cur, o)
         /\ Set(t, [th[t] EXCEPT !.pc = "r_save_previous", !.lcur = o])
    /\ UNCHANGED <<Fixed, ServiceTables, queue, sec, releases, current,
                   envConfig, faults, Hist>>

(* executor.py:130-131 *)
RollbackSavePrevious(t) ==
    /\ th[t].pc = "r_save_previous"
    /\ LET o == [th[t].lprev EXCEPT !.status = "active"] IN
         /\ deployments' = Save(deployments, th[t].prev, o)
         /\ Set(t, [th[t] EXCEPT !.pc = "r_save_record", !.lprev = o])
    /\ UNCHANGED <<Fixed, ServiceTables, queue, sec, releases, current,
                   envConfig, faults, Hist>>

(* executor.py:133-138 *)
RollbackSaveRecord(t) ==
    /\ th[t].pc = "r_save_record"
    /\ LET o == [th[t].lrb EXCEPT !.status = "active", !.completed_at = Now] IN
         /\ deployments' = Save(deployments, th[t].rb, o)
         /\ Set(t, Returned([th[t] EXCEPT !.lrb = o]))
    /\ UNCHANGED <<Fixed, ServiceTables, queue, sec, releases, current,
                   envConfig, faults, Hist>>

----------------------------------------------------------------------------
(* The caller has its answer; the thread takes the next request *)
Return(t) ==
    /\ th[t].pc = "done"
    /\ Set(t, Idle)
    /\ pre' = [pre EXCEPT ![t] = <<>>]
    /\ preCurrent' = [preCurrent EXCEPT ![t] = 0]
    /\ preReleases' = [preReleases EXCEPT ![t] = {}]
    /\ UNCHANGED <<Fixed, ServiceTables, deployments, queue, sec, releases,
                   current, envConfig, faults>>

(* tasks.process_deployment(d), one run of the Celery task: a row that is no
   longer pending is skipped; a pending row is saved as 'deploying', then
   executor._execute_deployment_steps, which DeploymentExecutor does not
   define, raises AttributeError and the row is saved as 'failed' *)
ProcessDeployment(d) ==
    /\ d \in queue
    /\ queue' = queue \ {d}
    /\ IF deployments[d].status = "pending"
       THEN deployments' = Save(deployments, d,
              [deployments[d] EXCEPT !.status = "failed",
                                     !.error = "AttributeError",
                                     !.completed_at = Now])
       ELSE UNCHANGED deployments
    /\ UNCHANGED <<Fixed, ServiceTables, sec, releases, current, envConfig,
                   th, faults, Hist>>

(* the operator enters a health_check_endpoint for the web service r in the
   admin form of the Service (core/admin.py:156) *)
AdminSetEndpoint(r) ==
    /\ r.type = "django" /\ ~r.endpoint
    /\ services' = SaveService(services, r.env, r.name,
                               [r EXCEPT !.endpoint = TRUE])
    /\ UNCHANGED <<Fixed, healthChecks, deployments, queue, sec, releases,
                   current, envConfig, th, faults, Hist>>

Next ==
    \/ \E t \in Threads : StartDeploy(t)
    \/ \E t \in Threads : StartRollback(t)
    \/ \E t \in Threads : DeployResolve(t)
    \/ \E t \in Threads : RollbackResolve(t)
    \/ \E t \in Threads : DeployCheck(t)
    \/ \E t \in Threads : DeployCreate(t)
    \/ \E t \in Threads : DeployClone(t)
    \/ \E t \in Threads : DeployCheckout(t)
    \/ \E t \in Threads : DeployConfig(t)
    \/ \E t \in Threads : DeployRelease(t)
    \/ \E t \in Threads : DeployRuntime(t)
    \/ \E t \in Threads : DeployPreHooks(t)
    \/ \E t \in Threads : DeploySupervisor(t)
    \/ \E t \in Threads : DeployNginx(t)
    \/ \E t \in Threads : DeployUnlink(t)
    \/ \E t \in Threads : DeploySymlink(t)
    \/ \E t \in Threads : DeployReload(t)
    \/ \E t \in Threads : DeployHealth(t)
    \/ \E t \in Threads : DeployPostHooks(t)
    \/ \E t \in Threads : DeployCleanup(t)
    \/ \E t \in Threads : DeployActive(t)
    \/ \E t \in Threads : DeployDemote(t)
    \/ \E t \in Threads : FailMark(t)
    \/ \E t \in Threads : FailReturn(t)
    \/ \E t \in Threads : RollbackCurrent(t)
    \/ \E t \in Threads : RollbackPrevious(t)
    \/ \E t \in Threads : RollbackCreate(t)
    \/ \E t \in Threads : RollbackUnlink(t)
    \/ \E t \in Threads : RollbackSymlink(t)
    \/ \E t \in Threads : RollbackReload(t)
    \/ \E t \in Threads : RollbackSaveCurrent(t)
    \/ \E t \in Threads : RollbackSavePrevious(t)
    \/ \E t \in Threads : RollbackSaveRecord(t)
    \/ \E t \in Threads : Return(t)
    \/ \E d \in queue : ProcessDeployment(d)

Spec == Init /\ [][Next]_vars

(* each of the two threads serves one request *)
ConcNext ==
    \/ \E t \in Threads : StartDeploy(t)
    \/ \E t \in Threads : StartRollback(t)
    \/ \E t \in Threads : DeployResolve(t)
    \/ \E t \in Threads : RollbackResolve(t)
    \/ \E t \in Threads : DeployCheck(t)
    \/ \E t \in Threads : DeployCreate(t)
    \/ \E t \in Threads : DeployClone(t)
    \/ \E t \in Threads : DeployCheckout(t)
    \/ \E t \in Threads : DeployConfig(t)
    \/ \E t \in Threads : DeployRelease(t)
    \/ \E t \in Threads : DeployRuntime(t)
    \/ \E t \in Threads : DeployPreHooks(t)
    \/ \E t \in Threads : DeploySupervisor(t)
    \/ \E t \in Threads : DeployNginx(t)
    \/ \E t \in Threads : DeployUnlink(t)
    \/ \E t \in Threads : DeploySymlink(t)
    \/ \E t \in Threads : DeployReload(t)
    \/ \E t \in Threads : DeployHealth(t)
    \/ \E t \in Threads : DeployPostHooks(t)
    \/ \E t \in Threads : DeployCleanup(t)
    \/ \E t \in Threads : DeployActive(t)
    \/ \E t \in Threads : DeployDemote(t)
    \/ \E t \in Threads : FailMark(t)
    \/ \E t \in Threads : FailReturn(t)
    \/ \E t \in Threads : RollbackCurrent(t)
    \/ \E t \in Threads : RollbackPrevious(t)
    \/ \E t \in Threads : RollbackCreate(t)
    \/ \E t \in Threads : RollbackUnlink(t)
    \/ \E t \in Threads : RollbackSymlink(t)
    \/ \E t \in Threads : RollbackReload(t)
    \/ \E t \in Threads : RollbackSaveCurrent(t)
    \/ \E t \in Threads : RollbackSavePrevious(t)
    \/ \E t \in Threads : RollbackSaveRecord(t)
    \/ \E d \in queue : ProcessDeployment(d)

SpecConc == InitConc /\ [][ConcNext]_vars

(* The environment from its registration on: no Service row exists before
   the first deploy, and the operator may enter health check endpoints in the
   admin form once the rows exist *)
InitFresh ==
    /\ mode = "fresh"
    /\ portStart = 9000
    /\ envActive = TRUE
    /\ repo = ""
    /\ jobs = [e \in EnvironmentNames |-> NoJob]
    /\ aged = 0
    /\ NoEnvVars
    /\ services = {}
    /\ healthChecks = <<>>
    /\ deployments = <<>>
    /\ queue = {}
    /\ sec = 0
    /\ releases = {}
    /\ current = 0
    /\ envConfig = NoConfig
    /\ th = [t \in AllThreads |-> Idle]
    /\ faults = 0
    /\ pre = [t \in AllThreads |-> <<>>]
    /\ preCurrent = [t \in AllThreads |-> 0]
    /\ preReleases = [t \in AllThreads |-> {}]

(* the operator switches Environment.active of environment qa in the admin
   form of the Environment (core/admin.py:50), while no invocation runs *)
AdminSetActive ==
    /\ \A t \in Threads : th[t].pc = "idle"
    /\ envActive' = ~envActive
    /\ UNCHANGED <<mode, portStart, repo, jobs, aged, EnvVarTables,
                   ServiceTables, deployments, queue, sec, releases, current, envConfig, th,
                   faults, Hist>>

FreshNext ==
    \/ Next
    \/ \E r \in services : AdminSetEndpoint(r)
    \/ AdminSetActive

SpecFresh == InitFresh /\ [][FreshNext]_vars

(* The periodic sweep (celery beat, every 10 minutes) beside the invocations;
   steps of an invocation may take long (clone, pip install, hooks) *)
InitSweep ==
    /\ mode = "sweep"
    /\ portStart = 9000
    /\ envActive = TRUE
    /\ repo = ""
    /\ jobs = [e \in EnvironmentNames |-> NoJob]
    /\ aged = 0
    /\ NoEnvVars
    /\ services = {[ServiceRow("qa", n, "django", 0) EXCEPT !.endpoint = TRUE] :
                       n \in {"api", "web"}}
    /\ healthChecks = <<>>
    /\ deployments = <<>>
    /\ queue = {}
    /\ sec = 0
    /\ releases = {}
    /\ current = 0
    /\ envConfig = NoConfig
    /\ th = [t \in AllThreads |-> Idle]
    /\ faults = 0
    /\ pre = [t \in AllThreads |-> <<>>]
    /\ preCurrent = [t \in AllThreads |-> 0]
    /\ preReleases = [t \in AllThreads |-> {}]

(* more than 30 minutes pass: every row of the table is now older than the
   threshold of the sweep *)
TimePasses ==
    /\ aged < Len(deployments)
    /\ aged' = Len(deployments)
    /\ UNCHANGED <<mode, portStart, envActive, repo, jobs, EnvVarTables,
                   ServiceTables, deployments, queue, sec, releases, current, envConfig, th,
                   faults, Hist>>

(* Deployment.objects.filter(status__in=['pending', 'deploying'],
   deployed_at__lt=threshold) *)
Stuck(deps, n) ==
    {d \in 1 .. n : deps[d].status \in {"pending", "deploying"}}

(* the loop of cleanup_stuck_deployments over the rows ds *)
SweepRows(deps, ds, stamp) ==
    [d \in Ids(deps) |->
        IF d \in ds
        THEN [deps[d] EXCEPT !.status = "failed",
                             !.error = "Deployment timed out after 30 minutes",
                             !.completed_at = stamp]
        ELSE deps[d]]

(* tasks.cleanup_stuck_deployments, one run *)
Sweep ==
    /\ deployments' = SweepRows(deployments, Stuck(deployments, aged), Now)
    /\ UNCHANGED <<Fixed, ServiceTables, queue, sec, releases, current,
                   envConfig, th, faults, Hist>>

SweepNext ==
    \/ Next
    \/ TimePasses
    \/ Sweep

SpecSweep == InitSweep /\ [][SweepNext]_vars

(* The periodic health check (celery beat, every 5 minutes) beside the
   invocations *)
InitHealth ==
    /\ mode = "health"
    /\ portStart = 9000
    /\ envActive = TRUE
    /\ repo = ""
    /\ jobs = [e \in EnvironmentNames |-> NoJob]
    /\ aged = 0
    /\ NoEnvVars
    /\ services = {[ServiceRow("qa", n, "django", 0) EXCEPT !.endpoint = TRUE] :
                       n \in {"api", "web"}}
    /\ healthChecks = <<>>
    /\ deployments = <<>>
    /\ queue = {}
    /\ sec = 0
    /\ releases = {}
    /\ current = 0
    /\ envConfig = NoConfig
    /\ th = [t \in AllThreads |-> Idle]
    /\ faults = 0
    /\ pre = [t \in AllThreads |-> <<>>]
    /\ preCurrent = [t \in AllThreads |-> 0]
    /\ preReleases = [t \in AllThreads |-> {}]

(* tasks.check_deployment_health, one run: of the active environments only
   qa of app1 has deployments; for its current deployment, when there is
   one, _perform_health_checks is called with the row just read, and its
   RuntimeError is caught and logged *)
CheckDeploymentHealth ==
    /\ mode = "health"
    /\ envActive
    /\ LET d == CurrentDeployment(deployments)
           ns == Probed(services, "qa") IN
         /\ d # 0
         /\ deployments' = Save(deployments, d,
                                [deployments[d] EXCEPT !.status = "testing"])
         /\ \E bad \in BadSets(ns) :
              /\ faults' = faults + Cardinality(bad)
              /\ healthChecks' = healthChecks \o ProbeRows(ns, bad)
         /\ services' = MarkChecked(services, "qa")
    /\ UNCHANGED <<Fixed, queue, sec, releases, current, envConfig, th, Hist>>

HealthNext ==
    \/ Next
    \/ CheckDeploymentHealth

SpecHealth == InitHealth /\ [][HealthNext]_vars

(* An environment in use: five deploys have been made, the newest is active
   and linked, all five release directories exist; the table of services
   also holds a worker that an earlier config declared and the current one
   does not, a disabled admin service with a port of its own, and a service
   of environment stage *)
InitEstablished ==
    /\ mode = "established"
    /\ portStart = 9000
    /\ envActive = TRUE
    /\ repo = ""
    /\ jobs = [e \in EnvironmentNames |-> NoJob]
    /\ aged = 0
    /\ NoEnvVars
    /\ services =
           {[ServiceRow("qa", "api", "django", 9000) EXCEPT !.endpoint = TRUE],
            [ServiceRow("qa", "web", "django", 9001) EXCEPT !.endpoint = TRUE],
            [ServiceRow("qa", "worker", "celery", 0) EXCEPT
                 !.command = "legacy", !.resources = "custom"],
            [ServiceRow("qa", "admin", "django", 9002) EXCEPT
                 !.command = "legacy", !.enabled = FALSE],
            [ServiceRow("stage", "api", "django", 9000) EXCEPT
                 !.command = "legacy"]}
    /\ healthChecks = <<>>
    /\ deployments = [v \in 1 .. Keep |->
                          DeployedRow(v, IF v = Keep THEN "active" ELSE "inactive")]
    /\ queue = {}
    /\ sec = Keep
    /\ releases = 1 .. Keep
    /\ current = Keep
    /\ envConfig = ParsedConfig(FALSE)
    /\ th = [t \in AllThreads |-> Idle]
    /\ faults = 0
    /\ pre = [t \in AllThreads |-> <<>>]
    /\ preCurrent = [t \in AllThreads |-> 0]
    /\ preReleases = [t \in AllThreads |-> {}]

SpecEstablished == InitEstablished /\ [][Next]_vars

(* a deploy of version v that failed in its pre-deploy hooks, as FailMark
   leaves it: the release directory was created and its path saved before *)
FailedRow(v) ==
    [status |-> "failed", version |-> v, path |-> v, completed_at |-> v,
     rollback_from |-> 0, error |-> "Hook failed"]

(* An environment after one successful deploy and four deploys that failed
   in their hooks: the first is active and linked, every deploy has left its
   release directory, and each automatic rollback found no previous
   deployment *)
InitAfterFailures ==
    /\ mode = "failures"
    /\ portStart = 9000
    /\ envActive = TRUE
    /\ repo = ""
    /\ jobs = [e \in EnvironmentNames |-> NoJob]
    /\ aged = 0
    /\ NoEnvVars
    /\ services =
           {[ServiceRow("qa", "api", "django", 9000) EXCEPT
                 !.endpoint = TRUE, !.status = "running"],
            [ServiceRow("qa", "web", "django", 9001) EXCEPT
                 !.endpoint = TRUE, !.status = "running"]}
    /\ healthChecks = ProbeRows(<<"api", "web">>, {})
    /\ deployments = [v \in 1 .. Keep |->
                          IF v = 1 THEN DeployedRow(1, "active")
                          ELSE FailedRow(v)]
    /\ queue = {}
    /\ sec = Keep
    /\ releases = 1 .. Keep
    /\ current = 1
    /\ envConfig = ParsedConfig(TRUE)
    /\ th = [t \in AllThreads |-> Idle]
    /\ faults = 0
    /\ pre = [t \in AllThreads |-> <<>>]
    /\ preCurrent = [t \in AllThreads |-> 0]
    /\ preReleases = [t \in AllThreads |-> {}]

SpecAfterFailures == InitAfterFailures /\ [][Next]_vars

(* The port allocator on its own: the environment qa holds up to three
   services, each without a port or with one of the first ports from the
   start port on, a web service that has no port yet, and the environment
   stage of the same project holds one service *)
PortStarts == {8000, 9000}

MaxPortOffset == 3

PortChoices(start) == {0} \cup (start .. start + MaxPortOffset)

InitPorts ==
    /\ mode = "ports"
    /\ portStart \in PortStarts
    /\ envActive = TRUE
    /\ repo = ""
    /\ jobs = [e \in EnvironmentNames |-> NoJob]
    /\ aged = 0
    /\ NoEnvVars
    /\ \E a \in PortChoices(portStart), b \in PortChoices(portStart),
          c \in PortChoices(portStart), o \in {0, portStart} :
         services = {ServiceRow("qa", "api", "django", a),
                     ServiceRow("qa", "admin", "django", b),
                     ServiceRow("qa", "worker", "celery", c),
                     ServiceRow("qa", "web", "django", 0),
                     ServiceRow("stage", "web", "django", o)}
    /\ healthChecks = <<>>
    /\ deployments = <<>>
    /\ queue = {}
    /\ sec = 0
    /\ releases = {}
    /\ current = 0
    /\ envConfig = NoConfig
    /\ th = [t \in AllThreads |-> Idle]
    /\ faults = 0
    /\ pre = [t \in AllThreads |-> <<>>]
    /\ preCurrent = [t \in AllThreads |-> 0]
    /\ preReleases = [t \in AllThreads |-> {}]

(* the allocation of _update_supervisor_configs (executor.py:421-424) for a
   Service row r of the table *)
AllocatePort(r) ==
    /\ r.type = "django" /\ r.port = 0
    /\ services' = AssignPort(services, r, portStart)
    /\ UNCHANGED <<Fixed, healthChecks, deployments, queue, sec, releases,
                   current, envConfig, th, faults, Hist>>

PortsNext == \E r \in services : AllocatePort(r)

SpecPorts == InitPorts /\ [][PortsNext]_vars

(* Two deploys to two environments of project app1 (qa and stage, both taken
   as active), each through the steps that touch the repository directory
   REPOS_DIR/<project>, which the environments of a project share *)
DeployedEnvironments == {"qa", "stage"}

InitEnvs ==
    /\ mode = "envs"
    /\ portStart = 9000
    /\ envActive = TRUE
    /\ repo = ""
    /\ jobs = [e \in EnvironmentNames |-> NoJob]
    /\ aged = 0
    /\ NoEnvVars
    /\ services = {}
    /\ healthChecks = <<>>
    /\ deployments = <<>>
    /\ queue = {}
    /\ sec = 0
    /\ releases = {}
    /\ current = 0
    /\ envConfig = NoConfig
    /\ th = [t \in AllThreads |-> Idle]
    /\ faults = 0
    /\ pre = [t \in AllThreads |-> <<>>]
    /\ preCurrent = [t \in AllThreads |-> 0]
    /\ preReleases = [t \in AllThreads |-> {}]

EnvFrame ==
    UNCHANGED <<mode, portStart, envActive, aged, EnvVarTables, ServiceTables,
                deployments, queue, sec, releases, current, envConfig, th, faults, Hist>>

(* deploy(project, e, commit_sha=c): the Deployment is created with the
   requested commit (executor.py:40-46) *)
EnvDeployCreate(e, c) ==
    /\ jobs[e].pc = "idle"
    /\ jobs' = [jobs EXCEPT ![e] = [pc |-> "clone", requested |-> c,
                                    commit_sha |-> c, release |-> ""]]
    /\ UNCHANGED repo
    /\ EnvFrame

(* _clone_or_update_repo: git clone leaves the default branch checked out;
   git fetch leaves the working tree as it is *)
EnvDeployClone(e) ==
    /\ jobs[e].pc = "clone"
    /\ repo' = IF repo = "" THEN LatestCommit ELSE repo
    /\ jobs' = [jobs EXCEPT ![e].pc = "checkout"]
    /\ EnvFrame

(* _checkout_commit: git checkout <commit_sha> in the repository directory;
   the commit is saved on the Deployment *)
EnvDeployCheckout(e) ==
    /\ jobs[e].pc = "checkout"
    /\ repo' = jobs[e].requested
    /\ jobs' = [jobs EXCEPT ![e].pc = "release",
                            ![e].commit_sha = jobs[e].requested]
    /\ EnvFrame

(* _create_release_directory: copytree(repo_path, release_path) copies what is
   checked out at that moment *)
EnvDeployRelease(e) ==
    /\ jobs[e].pc = "release"
    /\ jobs' = [jobs EXCEPT ![e].pc = "released", ![e].release = repo]
    /\ UNCHANGED repo
    /\ EnvFrame

(* the deploy call of environment e has returned *)
EnvReturn(e) ==
    /\ jobs[e].pc = "released"
    /\ jobs' = [jobs EXCEPT ![e] = NoJob]
    /\ UNCHANGED repo
    /\ EnvFrame

EnvsNext ==
    \/ \E e \in DeployedEnvironments : \E c \in Commits : EnvDeployCreate(e, c)
    \/ \E e \in DeployedEnvironments : EnvDeployClone(e)
    \/ \E e \in DeployedEnvironments : EnvDeployCheckout(e)
    \/ \E e \in DeployedEnvironments : EnvDeployRelease(e)
    \/ \E e \in DeployedEnvironments : EnvReturn(e)

SpecEnvs == InitEnvs /\ [][EnvsNext]_vars

----------------------------------------------------------------------------
(* _prepare_environment_variables on its own. A Python str is the sequence
   of its characters; a value of a dict is a str or an int *)

PyStr(cs) == [t |-> "str", s |-> cs, n |-> 0]

PyInt(i) == [t |-> "int", s |-> <<>>, n |-> i]

DigitChars == <<"0", "1", "2", "3", "4", "5", "6", "7", "8", "9">>

RECURSIVE Decimal(_)
Decimal(i) ==
    IF i < 10 THEN <<DigitChars[i + 1]>>
    ELSE Decimal(i \div 10) \o <<DigitChars[(i % 10) + 1]>>

(* str(value) *)
Str(v) == IF v.t = "str" THEN v.s ELSE Decimal(v.n)

(* s.startswith(p), s.endswith(p) *)
StartsWith(cs, p) == Len(cs) >= Len(p) /\ SubSeq(cs, 1, Len(p)) = p

EndsWith(cs, p) ==
    Len(cs) >= Len(p) /\ SubSeq(cs, Len(cs) - Len(p) + 1, Len(cs)) = p

(* d[k] = v *)
Put(d, k, v) == [x \in DOMAIN d \cup {k} |-> IF x = k THEN v ELSE d[x]]

DEPLOYMENT_VERSION == <<"D", "E", "P", "L", "O", "Y", "M", "E", "N", "T", "_", "V", "E", "R", "S", "I", "O", "N">>

DEPLOYMENT_ENV == <<"D", "E", "P", "L", "O", "Y", "M", "E", "N", "T", "_", "E", "N", "V">>

PROJECT_NAME == <<"P", "R", "O", "J", "E", "C", "T", "_", "N", "A", "M", "E">>

SECRET_ == <<"S", "E", "C", "R", "E", "T", "_">>

(* the keys used in configs and in secret stores: an application key, an
   internal key and one that is also a system key *)
DB_URL == <<"D", "B", "_", "U", "R", "L">>

InternalKey == <<"_", "K", "E", "Y">>

VarKeys == {DB_URL, InternalKey, DEPLOYMENT_ENV}

(* '${SECRET_<name>}' *)
Placeholder(name) == PyStr(<<"$", "{">> \o SECRET_ \o name \o <<"}">>)

(* values of config['env_vars']: a literal, a number, a placeholder for each
   key a secret may have, and a ${...} that names no secret *)
ConfigValues ==
    {PyStr(<<"d", "e", "v">>), PyInt(5432), PyStr(<<"$", "{", "D", "B", "_", "U", "R", "L", "}">>)}
    \cup {Placeholder(k) : k \in {DB_URL, InternalKey}}

SecretValues == {PyStr(<<"s", "3">>), PyInt(17)}

(* executor.py:292-294: the system values of a deployment of app1 to qa *)
SystemVars ==
    Put(Put(Put(<<>>, DEPLOYMENT_VERSION, <<"v", "1">>), DEPLOYMENT_ENV, <<"q", "a">>),
        PROJECT_NAME, <<"a", "p", "p", "1">>)

(* executor.py:300-305: a str value '${SECRET_<name>}' whose name is a key of
   the secret store is replaced by that secret *)
ResolvePlaceholder(v, secs) ==
    IF v.t = "str" /\ StartsWith(v.s, <<"$", "{">>) /\ EndsWith(v.s, <<"}">>)
    THEN LET secret_key == SubSeq(v.s, 3, Len(v.s) - 1) IN
           IF StartsWith(secret_key, SECRET_)
           THEN LET secret_name == SubSeq(secret_key, 8, Len(secret_key)) IN
                  IF secret_name \in DOMAIN secs THEN secs[secret_name] ELSE v
           ELSE v
    ELSE v

(* executor.py:298-306: the loop over config['env_vars'].items(), for the
   keys ks still to come *)
RECURSIVE AddConfigVars(_, _, _, _)
AddConfigVars(env_vars, cfg, secs, ks) ==
    IF ks = {} THEN env_vars
    ELSE LET key == CHOOSE k \in ks : TRUE IN
           AddConfigVars(Put(env_vars, key,
                             Str(ResolvePlaceholder(cfg[key], secs))),
                         cfg, secs, ks \ {key})

(* a variant of the loop over the secrets that exports every key *)
RECURSIVE AddEverySecret(_, _, _)
AddEverySecret(env_vars, secs, ks) ==
    IF ks = {} THEN env_vars
    ELSE LET key == CHOOSE k \in ks : TRUE IN
           AddEverySecret(Put(env_vars, key, Str(secs[key])), secs,
                          ks \ {key})

(* executor.py:309-311: the loop over environment.secrets.items(), for the
   keys ks still to come; a key that starts with '_' is skipped *)
RECURSIVE AddSecrets(_, _, _)
AddSecrets(env_vars, secs, ks) ==
    IF ks = {} THEN env_vars
    ELSE LET key == CHOOSE k \in ks : TRUE IN
           AddSecrets(IF ~StartsWith(key, <<"_">>)
                      THEN Put(env_vars, key, Str(secs[key]))
                      ELSE env_vars,
                      secs, ks \ {key})

(* _prepare_environment_variables *)
PrepareEnvironmentVariables(cfg, secs) ==
    AddSecrets(AddConfigVars(SystemVars, cfg, secs, DOMAIN cfg), secs,
               DOMAIN secs)

(* every config and every secret store over the keys and values above *)
InitVars ==
    /\ mode = "vars"
    /\ portStart = 9000
    /\ envActive = TRUE
    /\ repo = ""
    /\ jobs = [e \in EnvironmentNames |-> NoJob]
    /\ aged = 0
    /\ \E ks \in SUBSET VarKeys : secrets \in [ks -> SecretValues]
    /\ \E ks \in SUBSET VarKeys : configVars \in [ks -> ConfigValues]
    /\ envVars = [prepared |-> FALSE, vars |-> <<>>]
    /\ services = {}
    /\ healthChecks = <<>>
    /\ deployments = <<>>
    /\ queue = {}
    /\ sec = 0
    /\ releases = {}
    /\ current = 0
    /\ envConfig = NoConfig
    /\ th = [t \in AllThreads |-> Idle]
    /\ faults = 0
    /\ pre = [t \in AllThreads |-> <<>>]
    /\ preCurrent = [t \in AllThreads |-> 0]
    /\ preReleases = [t \in AllThreads |-> {}]

(* the call at executor.py:57 *)
PrepareVars ==
    /\ mode = "vars"
    /\ ~envVars.prepared
    /\ envVars' = [prepared |-> TRUE,
                   vars |-> PrepareEnvironmentVariables(configVars, secrets)]
    /\ UNCHANGED <<mode, portStart, envActive, repo, jobs, aged, secrets,
                   configVars, ServiceTables, deployments, queue, sec,
                   releases, current, envConfig, th, faults, Hist>>

VarsNext == PrepareVars

SpecVars == InitVars /\ [][VarsNext]_vars

----------------------------------------------------------------------------
(* Properties, part 1: invariants of the table and admission of deploys *)

NonTerminalRows(deps) == {d \in Ids(deps) : deps[d].status \in NonTerminal}

(* C1: in every reachable state, the intermediate states of an invocation
   included, at most one Deployment of the Environment has status `active`. *)
AtMostOneActive == Cardinality(Actives(deployments)) <= 1

(* C2: in every reachable state, whatever entry points the deploy and rollback
   invocations came through, at most one Deployment of the Environment is in
   a non-terminal status. *)
AtMostOneNonTerminal == Cardinality(NonTerminalRows(deployments)) <= 1

(* C3: a deploy call for the Environment (qa of app1) that arrives while the
   Environment has a Deployment in a non-terminal status creates no row and is answered with Conflict, through
   whichever entry point it came. *)
DeployWhileInProgressRejected ==
    \A t \in Threads :
        (/\ th[t].op = "deploy" /\ th[t].project = "app1" /\ th[t].env = "qa"
         /\ InProgress(pre[t])) =>
            /\ th[t].dep = 0
            /\ Len(deployments) = Len(pre[t])
            /\ th[t].pc = "done" => th[t].res = "conflict"

(* C4: of two deploy requests that pass through the in-progress check
   concurrently, with nothing in flight beforehand, at most one is admitted:
   their two rows are never in flight together. *)
ConcurrentDeploysAdmitOne ==
    \A t1 \in Threads : \A t2 \in Threads \ {t1} :
        ~ /\ th[t1].op = "deploy" /\ th[t1].guard /\ th[t1].dep # 0
          /\ th[t2].op = "deploy" /\ th[t2].guard /\ th[t2].dep # 0
          /\ deployments[th[t1].dep].status \in NonTerminal
          /\ deployments[th[t2].dep].status \in NonTerminal

----------------------------------------------------------------------------
(* Properties, part 2: what deploy and rollback leave behind.  They are read
   at the state where the invocation has its answer (pc = "done"), against
   the table as it was when the invocation started (pre). *)

DeployFailed(t) ==
    th[t].pc = "done" /\ th[t].op = "deploy" /\ th[t].res = "raised"

DeploySucceeded(t) ==
    th[t].pc = "done" /\ th[t].op = "deploy" /\ th[t].res = "ok"

RollbackSucceeded(t) ==
    th[t].pc = "done" /\ th[t].op = "rollback" /\ th[t].res = "ok"

(* C5: with v1 the one active Deployment (and any older inactive ones), when
   deploy v2 fails its health checks, the deploy call returns with v2
   `failed` and v1 `active`. *)
HealthFailureKeepsActive ==
    \A t \in Threads :
        (/\ DeployFailed(t)
         /\ th[t].err = "Health checks failed"
         /\ Cardinality(Actives(pre[t])) = 1) =>
            /\ deployments[th[t].dep].status = "failed"
            /\ \A v1 \in Actives(pre[t]) : deployments[v1].status = "active"

(* C6: when deploy v2 fails and its automatic rollback succeeds, the rollback
   record of that attempt is `active` and its rollback_from is v2. *)
RollbackRecordPointsAtFailed ==
    \A t \in Threads :
        (DeployFailed(t) /\ th[t].rb # 0 /\ th[t].rerr = "") =>
            /\ deployments[th[t].rb].status = "active"
            /\ deployments[th[t].rb].rollback_from = th[t].dep

(* C7: when a stage of deploy raises, the failing Deployment is `failed` with
   the error text and a completion timestamp from the failure handler on, and
   the deploy call raises that stage error to its caller, whether the
   automatic rollback succeeded or raised. *)
DeployFailureReported ==
    \A t \in Threads :
        (th[t].op = "deploy" /\ th[t].err # "" /\ th[t].pc # "f_mark") =>
            /\ deployments[th[t].dep].status = "failed"
            /\ deployments[th[t].dep].error = th[t].err
            /\ deployments[th[t].dep].completed_at # 0
            /\ th[t].pc = "done" => (th[t].res = "raised" /\ th[t].exc = th[t].err)

(* the deploy call has raised although its automatic rollback raised too *)
DeployFailedRollbackRaised ==
    \E t \in Threads : DeployFailed(t) /\ th[t].rerr # "" /\ th[t].err # th[t].rerr

(* C8: when deploy returns successfully, the new Deployment is `active` with a
   completion timestamp and every other Deployment that was `active` when the
   call started is `inactive`, however many there were. *)
DeploySuccessDemotesAll ==
    \A t \in Threads :
        DeploySucceeded(t) =>
            /\ deployments[th[t].dep].status = "active"
            /\ deployments[th[t].dep].completed_at # 0
            /\ \A d \in Actives(pre[t]) : deployments[d].status = "inactive"

(* a deploy has succeeded that started with two active Deployments *)
DeploySucceededOverTwoActive ==
    \E t \in Threads : DeploySucceeded(t) /\ Cardinality(Actives(pre[t])) >= 2

CompletedInactive(deps) ==
    {d \in Ids(deps) : deps[d].status = "inactive" /\ deps[d].completed_at # 0}

(* C9: a successful rollback changes exactly three statuses: the Deployment
   that was active becomes `rolled_back`, the inactive Deployment with the
   greatest completion timestamp becomes `active` and is the release the link
   points at, and the new rollback record is `active` with a completion
   timestamp; every other row is as it was. *)
RollbackSuccessChangesThree ==
    \A t \in Threads :
        RollbackSucceeded(t) =>
            LET old == pre[t]
                c == th[t].cur
                p == th[t].prev
                r == th[t].rb
            IN  /\ c \in Actives(old)
                /\ p \in CompletedInactive(old)
                /\ \A e \in CompletedInactive(old) :
                       old[e].completed_at <= old[p].completed_at
                /\ r = Len(old) + 1
                /\ Len(deployments) = Len(old) + 1
                /\ deployments[c] = [old[c] EXCEPT !.status = "rolled_back"]
                /\ deployments[p] = [old[p] EXCEPT !.status = "active"]
                /\ deployments[r].status = "active"
                /\ deployments[r].completed_at # 0
                /\ \A d \in Ids(old) \ {c, p} : deployments[d] = old[d]
                /\ current = old[p].path

(* a rollback has succeeded that had two completed inactive Deployments to
   choose from *)
RollbackSucceededWithChoice ==
    \E t \in Threads :
        RollbackSucceeded(t) /\ Cardinality(CompletedInactive(pre[t])) >= 2

(* C10: a rollback call for an Environment with no `active` Deployment, or
   with no completed `inactive` Deployment, fails with an error and changes
   nothing: no row is created, no status changes, the link is not touched. *)
RollbackRejectedUnchanged ==
    \A t \in Threads :
        (/\ th[t].op = "rollback"
         /\ (Actives(pre[t]) = {} \/ CompletedInactive(pre[t]) = {})) =>
            /\ deployments = pre[t]
            /\ current = preCurrent[t]
            /\ th[t].pc = "done" => th[t].res = "raised"

(* a rollback has been refused for want of a completed inactive Deployment,
   with an active and a failed Deployment in the table *)
RollbackRefusedNoPrevious ==
    \E t \in Threads :
        /\ th[t].pc = "done" /\ th[t].op = "rollback" /\ th[t].res = "raised"
        /\ th[t].exc = "No previous deployment to rollback to"
        /\ \E d \in Ids(pre[t]) : pre[t][d].status = "failed"

----------------------------------------------------------------------------
(* Properties, part 3: chains of rollbacks, the stages of deploy *)

(* rows 1..3 of the table are deploys v1, v2, v3 that completed successfully,
   and every later row is the record of a rollback that succeeded *)
ThreeDeploysThenRollbacks(deps) ==
    /\ Len(deps) >= 4
    /\ \A d \in 1..3 : /\ deps[d].rollback_from = 0
                       /\ deps[d].completed_at # 0
                       /\ deps[d].status \in {"active", "inactive", "rolled_back"}
    /\ \A d \in 4..Len(deps) : deps[d].rollback_from # 0 /\ deps[d].completed_at # 0

(* C11: after deploys v1, v2, v3 completed in that order, a first rollback
   leaves v2 active and v3 rolled_back, and a second rollback leaves v1 active
   and v2 rolled_back. *)
RollbackChainFollowsCompletion ==
    \A t \in Threads :
        (RollbackSucceeded(t) /\ ThreeDeploysThenRollbacks(deployments)) =>
            /\ Len(deployments) = 4 =>
                   /\ deployments[2].status = "active"
                   /\ deployments[3].status = "rolled_back"
            /\ Len(deployments) = 5 =>
                   /\ deployments[1].status = "active"
                   /\ deployments[2].status = "rolled_back"

(* the stage that follows each stage of the pipeline *)
NextStage ==
    {<<"pending", "cloning">>, <<"cloning", "building">>,
     <<"building", "deploying">>, <<"deploying", "testing">>,
     <<"testing", "active">>}

(* C13: the status of a Deployment driven by deploy moves only forward along
   pending, cloning, building, deploying, testing, active, with no stage
   skipped: every step that takes the row of a running deploy from one stage
   to another stage, or to active, takes it to the next stage. *)
StagesInOrder ==
    [][\A t \in Threads :
         LET d == th[t].dep IN
           (/\ th[t].op = "deploy"
            /\ d # 0
            /\ deployments[d].status \in NonTerminal
            /\ deployments'[d].status \in NonTerminal \cup {"active"}
            /\ deployments'[d].status # deployments[d].status) =>
               <<deployments[d].status, deployments'[d].status>> \in NextStage]_vars

(* the steps of deploy in the order of executor.py:52-66 *)
Pipeline ==
    <<"clone", "checkout", "config", "release", "runtime", "pre_hooks",
      "supervisor", "nginx", "symlink", "reload", "health", "post_hooks",
      "prune">>

IsPrefix(p, q) == Len(p) <= Len(q) /\ p = SubSeq(q, 1, Len(p))

(* C14: within one deploy the steps are entered in the fixed order pre-hooks,
   process config, proxy config, symlink switch, reload, health checks,
   post-hooks, pruning, each after the one before it has returned, and no
   step is entered after an earlier step raised. *)
StepsInPipelineOrder ==
    [][\A t \in Threads :
         /\ IsPrefix(th'[t].steps, Pipeline)
         /\ th[t].err # "" => th'[t].steps \in {th[t].steps, <<>>}]_vars

(* a deploy has raised out of its pre-hooks with no later step entered *)
DeployStoppedAtPreHooks ==
    \E t \in Threads :
        DeployFailed(t) /\ th[t].steps = SubSeq(Pipeline, 1, 6)

(* C15: once the current-release pointer resolves to an existing release
   directory it does so in every later state, the intermediate states of a
   switch included: it is never absent and never dangling. *)
PointerAlwaysResolves ==
    [][LinkResolves(current, releases) => LinkResolves(current', releases')]_vars

(* C16: when an invocation of deploy or rollback has ended, the Deployment
   records it created are in a terminal status (active, failed, rolled_back),
   none is left pending, cloning, building, deploying or testing. *)
CreatedRecordsEndTerminal ==
    \A t \in Threads :
        th[t].pc = "done" =>
            /\ th[t].dep # 0 => deployments[th[t].dep].status \notin NonTerminal
            /\ th[t].rb # 0 => deployments[th[t].rb].status \notin NonTerminal

----------------------------------------------------------------------------
(* Properties, part 4: configuration and resolution errors *)

(* C19: when the checked-out repository holds none of the four deployment
   config files, deploy raises the configuration error, the Deployment ends
   `failed`, and its error text says that no deployment configuration was
   found. *)
MissingConfigFails ==
    \A t \in Threads :
        (/\ th[t].op = "deploy" /\ th[t].pc = "done"
         /\ Len(th[t].steps) >= 3 /\ ~th[t].file.found) =>
            /\ th[t].res = "raised"
            /\ th[t].exc = "No deployment configuration file found"
            /\ deployments[th[t].dep].status = "failed"
            /\ deployments[th[t].dep].error =
                   "No deployment configuration file found"

(* a deploy of a repository without a config file has raised *)
DeployWithoutConfigEnded ==
    \E t \in Threads :
        /\ DeployFailed(t) /\ Len(th[t].steps) = 3 /\ ~th[t].file.found

(* the pair names an active Project and an active Environment that the
   Project owns *)
Deployable(p, e) ==
    \E pr \in ProjectTable : \E en \in EnvironmentTable :
        /\ pr.name = p /\ pr.active
        /\ en.project = p /\ en.name = e /\ en.active

(* C20: a deploy call naming an unknown or inactive Project, or an Environment
   that is unknown, inactive or not owned by that Project, fails with
   DoesNotExist and has no side effect: no Deployment row, no pipeline step
   (hence no log row), no status change, no change to the release
   directories or to the link. *)
UnresolvedDeployHasNoEffect ==
    \A t \in Threads :
        (th[t].op = "deploy" /\ ~Deployable(th[t].project, th[t].env)) =>
            /\ th[t].dep = 0
            /\ th[t].steps = <<>>
            /\ deployments = pre[t]
            /\ current = preCurrent[t]
            /\ releases = preReleases[t]
            /\ th[t].pc = "done" =>
                   /\ th[t].res = "raised"
                   /\ th[t].exc \in {"Project.DoesNotExist",
                                     "Environment.DoesNotExist"}

(* a deploy to the inactive environment of an active project has been
   refused while the table held a live deployment *)
DeployToInactiveEnvironmentRefused ==
    \E t \in Threads :
        /\ DeployFailed(t) /\ th[t].project = "app1" /\ th[t].env = "stage"
        /\ th[t].exc = "Environment.DoesNotExist"
        /\ Actives(deployments) # {}

----------------------------------------------------------------------------
(* Claims, part 5: services, ports and health checks *)

(* the non-null ports that the Service rows of environment e hold *)
PortsHeld(svcs, e) == {x.port : x \in {y \in svcs : y.env = e /\ y.port # 0}}

(* C18: port allocation for an Environment returns the least integer p >= the
   Project's start port such that no Service of that Environment holds p; for
   used ports {8000, 8001, 8003} and start port 8000 it returns 8002. *)
AllocatedPortIsLeastFree ==
    [][\A r \in services' \ services :
          LET held == PortsHeld(services, r.env) IN
            /\ r.port >= portStart
            /\ r.port \notin held
            /\ \A q \in portStart .. (r.port - 1) : q \in held
            /\ (held = {8000, 8001, 8003} /\ portStart = 8000) => r.port = 8002
      ]_vars

(* the web service has been given 8002 next to services at 8000, 8001 and
   8003, with start port 8000 *)
AllocatedBetweenUsedPorts ==
    /\ portStart = 8000
    /\ \E r \in services : r.env = "qa" /\ r.name = "web" /\ r.port = 8002
    /\ PortsHeld(services, "qa") = {8000, 8001, 8002, 8003}

(* C17: with start port 9000 and a config that declares one web service with
   a health endpoint, the first deploy to the environment, in which every
   external step succeeds, ends with the Deployment `active`, the Service
   row holding port 9000 and exactly one HealthCheck row, is_healthy = true,
   recorded for that service. *)
FirstDeployRecordsHealthCheck ==
    \A t \in Threads :
        (/\ DeploySucceeded(t) /\ pre[t] = <<>> /\ faults = 0
         /\ portStart = 9000
    /\ envActive = TRUE
    /\ repo = ""
    /\ jobs = [e \in EnvironmentNames |-> NoJob]
    /\ aged = 0
         /\ th[t].file.services = <<ServiceConfig("web", "django")>>) =>
            /\ deployments[th[t].dep].status = "active"
            /\ \E r \in services :
                   r.env = th[t].env /\ r.name = "web" /\ r.port = 9000
            /\ healthChecks = <<[service |-> "web", is_healthy |-> TRUE]>>

(* the Services of environment e that the health stage has to probe: enabled,
   web-facing, with a health endpoint *)
DueForProbe(svcs, e) ==
    {r \in svcs : r.env = e /\ r.enabled /\ r.type = "django" /\ r.endpoint}

(* C12: a Deployment reaches `active` through deploy only if every enabled
   web-facing Service with a configured health endpoint answered its probe
   with HTTP 200 during that deploy; a single probed service that answers
   non-200 or cannot be reached makes the deployment end `failed`. *)
ActiveOnlyIfEveryProbePassed ==
    \A t \in Threads :
        (th[t].op = "deploy" /\ th[t].dep # 0) =>
            /\ deployments[th[t].dep].status = "active" =>
                   /\ \E i \in 1 .. Len(th[t].steps) : th[t].steps[i] = "health"
                   /\ \A r \in DueForProbe(th[t].seen, th[t].env) :
                          \E i \in 1 .. Len(th[t].probes) :
                              th[t].probes[i] =
                                  [service |-> r.name, is_healthy |-> TRUE]
            /\ (/\ th[t].pc = "done"
                /\ \E i \in 1 .. Len(th[t].probes) :
                       ~th[t].probes[i].is_healthy) =>
                   deployments[th[t].dep].status = "failed"

(* a deploy has ended after the first of two probed services answered badly
   and the second answered 200 *)
DeployFailedOnFirstProbe ==
    \E t \in Threads :
        /\ DeployFailed(t) /\ th[t].dep # 0
        /\ th[t].probes = <<[service |-> "api", is_healthy |-> FALSE],
                            [service |-> "web", is_healthy |-> TRUE]>>

----------------------------------------------------------------------------
(* Claims, part 6: resolution, releases, reload, hooks *)

(* the pair names a registered Project and one of its Environments, and the
   Project or the Environment is inactive *)
NamesInactive(p, e) ==
    /\ \E pr \in ProjectTable : pr.name = p
    /\ \E en \in EnvironmentTable : en.project = p /\ en.name = e
    /\ ~Deployable(p, e)

(* C21: a rollback call naming an inactive Project or an inactive Environment
   fails with DoesNotExist, creates no Deployment, changes no status and
   does not touch the current-release pointer. *)
RollbackOfInactiveRefused ==
    \A t \in Threads :
        (th[t].op = "rollback" /\ NamesInactive(th[t].project, th[t].env)) =>
            /\ deployments = pre[t]
            /\ current = preCurrent[t]
            /\ th[t].pc = "done" =>
                   /\ th[t].res = "raised"
                   /\ th[t].exc \in {"Project.DoesNotExist",
                                     "Environment.DoesNotExist"}

(* C22: when two deploys to two Environments of the same Project interleave
   with different requested commits, the release each one materializes
   contains exactly the commit recorded on its own Deployment. *)
ReleaseHoldsOwnCommit ==
    \A e \in DeployedEnvironments :
        (/\ jobs[e].pc = "released"
         /\ \A o \in DeployedEnvironments \ {e} :
                jobs[o].pc # "idle" => jobs[o].requested # jobs[e].requested) =>
            jobs[e].release = jobs[e].commit_sha

(* the rows that deploy created (a rollback record has rollback_from set) and
   that have recorded a release path *)
DeployedWithPath(deps) ==
    {d \in Ids(deps) : deps[d].rollback_from = 0 /\ deps[d].path # 0}

(* C23: no two Deployment records created by deploy for the same Environment
   have the same release path, including a retry admitted in the same clock
   second as a deploy that just failed. *)
ReleasePathsDistinct ==
    \A d1, d2 \in DeployedWithPath(deployments) :
        d1 # d2 => deployments[d1].path # deployments[d2].path

(* C24: a run of the periodic sweep, in whatever state it starts, marks
   `failed` every Deployment that has been in a non-terminal status (pending,
   cloning, building, deploying or testing) for longer than 30 minutes. *)
SweepReapsEveryNonTerminal ==
    LET after == SweepRows(deployments, Stuck(deployments, aged), Now) IN
        \A d \in 1 .. aged :
            deployments[d].status \in NonTerminal => after[d].status = "failed"

(* C25: every Deployment that rollback selects as its target has a release
   path that a deploy's release step recorded: the target is never a record
   without a path, such as an earlier rollback record. *)
RollbackTargetHasRelease ==
    \A t \in Threads :
        th[t].prev # 0 =>
            /\ th[t].lprev.path # 0
            /\ th[t].lprev.rollback_from = 0

(* C26: in the reload stage every enabled Service of the Environment is
   attempted whatever failed before it, each ends `running` if its reload
   succeeded and `failed` if it raised, and the stage itself never raises:
   the deploy or rollback goes on with the step that follows the reload. *)
ReloadAttemptsEveryService ==
    [][\A t \in Threads :
           (th[t].pc \in {"d_reload", "r_reload"} /\ th'[t].pc # th[t].pc) =>
               /\ th'[t].pc = IF th[t].pc = "d_reload" THEN "d_health"
                                                     ELSE "r_save_current"
               /\ \A x \in services' :
                      (x.env = th[t].env /\ x.enabled) =>
                          x.status = IF x.name \in th'[t].reloadFailed
                                     THEN "failed" ELSE "running"]_vars

(* a deploy goes on to the health checks after the reload of the first of
   two services raised and the second was reloaded *)
ReloadFailedForFirstService ==
    \E t \in Threads :
        /\ th[t].pc = "d_health" /\ th[t].reloadFailed = {"api"}
        /\ \E x \in services : x.name = "web" /\ x.status = "running"

(* the pipeline steps of deploy that follow the pre-deploy hooks *)
StepsAfterPreHooks ==
    {"supervisor", "nginx", "symlink", "reload", "health", "post_hooks",
     "prune"}

(* C27: if a pre-deploy hook exits non-zero or exceeds its timeout, no later
   hook and no later pipeline step of that deploy (process-config write,
   proxy-config write, symlink switch, reload, health check, post-hooks,
   pruning) executes, and the Deployment ends `failed`. *)
FailedPreHookAbortsPipeline ==
    \A t \in Threads :
        th[t].hookFailed # 0 =>
            /\ th[t].hooksRun = th[t].hookFailed
            /\ \A i \in 1 .. Len(th[t].steps) :
                   th[t].steps[i] \notin StepsAfterPreHooks
            /\ th[t].pc # "f_mark" =>
                   deployments[th[t].dep].status = "failed"

(* a deploy whose first hook failed has returned: the second hook was not
   run and the record is `failed` *)
DeployEndedAfterFirstHookFailed ==
    \E t \in Threads :
        /\ th[t].pc = "done" /\ th[t].op = "deploy"
        /\ th[t].hookFailed = 1 /\ th[t].hooksRun = 1
        /\ deployments[th[t].dep].status = "failed"

----------------------------------------------------------------------------
(* Claims, part 7: environment variables, service rows, pruning *)

(* the secret store exports key k itself *)
ExportedSecret(k) == k \in DOMAIN secrets /\ Head(k) # "_"

(* what the config contributes for its key k: the secret x for a value
   ${SECRET_x} when the store has x, the declared value otherwise *)
ConfigContribution(k) ==
    LET v == configVars[k]
        named == {x \in DOMAIN secrets : v = Placeholder(x)}
    IN  IF named # {} THEN Str(secrets[CHOOSE x \in named : TRUE])
        ELSE Str(v)

(* C28: environment-variable assembly gives, for every key, the value from
   the highest-precedence source that defines it, in the order system values
   < config env_vars (a ${SECRET_x} value replaced by secret x when x exists)
   < secret-store entries; the secret store does not export its keys that
   start with the internal prefix `_`. *)
EnvVarsFollowPrecedence ==
    envVars.prepared =>
        LET out == envVars.vars IN
          /\ DOMAIN out = DOMAIN SystemVars \cup DOMAIN configVars
                          \cup {k \in DOMAIN secrets : ExportedSecret(k)}
          /\ \A k \in DOMAIN out :
                 out[k] = IF ExportedSecret(k) THEN Str(secrets[k])
                          ELSE IF k \in DOMAIN configVars
                               THEN ConfigContribution(k)
                               ELSE SystemVars[k]
          /\ \A k \in DOMAIN secrets :
                 (Head(k) = "_" /\ k \notin DOMAIN configVars) =>
                     k \notin DOMAIN out

(* the variables were assembled from a store with an internal key and an
   application key that the config declares too, and a config that
   overrides a system value with a placeholder *)
EnvVarsAssembledFromAllSources ==
    /\ envVars.prepared
    /\ DOMAIN secrets = {DB_URL, InternalKey}
    /\ DOMAIN configVars = {DB_URL, DEPLOYMENT_ENV}
    /\ configVars[DEPLOYMENT_ENV] = Placeholder(InternalKey)
    /\ secrets[DB_URL] = PyInt(17)
    /\ envVars.vars[DB_URL] = <<"1", "7">>
    /\ InternalKey \notin DOMAIN envVars.vars

(* the config that the deploy of thread t has loaded declares the service of
   row x *)
DeclaredIn(t, x) ==
    /\ x.env = th[t].env
    /\ \E i \in 1 .. Len(th[t].file.services) :
           th[t].file.services[i].name = x.name

(* C29: no deploy or rollback ever deletes a Service row, and a deploy
   leaves the type, command, port, resource ceilings and enabled flag of
   every Service not declared in the deployed config unchanged. *)
ServiceRowsKept ==
    [][\A x \in services :
           /\ \E y \in services' : y.env = x.env /\ y.name = x.name
           /\ \A t \in Threads :
                  ~DeclaredIn(t, x) =>
                      \A y \in services' :
                          (y.env = x.env /\ y.name = x.name) =>
                              /\ y.type = x.type
                              /\ y.command = x.command
                              /\ y.port = x.port
                              /\ y.resources = x.resources
                              /\ y.enabled = x.enabled]_vars

(* a deploy has returned: the declared api service has been reloaded, the
   undeclared worker too, with its command and resources as before, and the
   disabled admin service is still disabled *)
UndeclaredServicesAfterDeploy ==
    \E t \in Threads :
        /\ th[t].pc = "done" /\ th[t].op = "deploy" /\ th[t].res = "ok"
        /\ \E x \in services :
               x.env = "qa" /\ x.name = "api" /\ x.status = "running"
        /\ \E x \in services :
               /\ x.env = "qa" /\ x.name = "worker" /\ x.status = "running"
               /\ x.command = "legacy" /\ x.resources = "custom" /\ x.enabled
        /\ \E x \in services :
               x.env = "qa" /\ x.name = "admin" /\ ~x.enabled /\ x.port = 9002

(* the deploy of thread t has run its pruning step *)
HasPruned(t) ==
    \E i \in 1 .. Len(th[t].steps) : th[t].steps[i] = "prune"

(* C30: after the pruning step of a successful deploy at most 5 release
   directories remain for the Environment when removals succeed, the retained
   ones are those with the newest creation times, the release just deployed
   is among them, and a removal failure does not fail the deployment. *)
PruningKeepsNewestReleases ==
    \A t \in Threads :
        HasPruned(t) =>
            LET before == releases \cup th[t].pruned IN
              /\ th[t].pruneFailed = {} => Cardinality(releases) <= Keep
              /\ \A r \in before :
                     Cardinality({q \in before : q > r}) < Keep =>
                         r \in releases
              /\ \A r \in th[t].pruned :
                     Cardinality({q \in before : q > r}) >= Keep
              /\ th[t].ldep.path \in releases
              /\ th[t].pc \in {"d_active", "d_demote", "done"}
              /\ th[t].pc = "done" =>
                     /\ th[t].res = "ok"
                     /\ deployments[th[t].dep].status = "active"

(* the sixth deploy has returned: the oldest release directory was removed
   and five are left *)
OldestReleasePruned ==
    \E t \in Threads :
        /\ th[t].pc = "done" /\ th[t].res = "ok"
        /\ th[t].pruned = {1}
        /\ releases = 2 .. (Keep + 1)
        /\ th[t].ldep.path = Keep + 1

----------------------------------------------------------------------------
(* Claims, part 8: configuration, the link, failure, ports *)

ConfigErrors ==
    {"No deployment configuration file found",
     "Missing required field in config"}

(* C31: the parsed config is persisted onto the Environment only after a
   config file was found and both required keys are present; a deploy that
   fails with a configuration error leaves Environment.config equal to its
   value before the deploy. *)
ConfigStoredOnlyWhenValid ==
    [][/\ envConfig' # envConfig =>
              \E t \in Threads :
                  /\ th[t].pc = "d_config" /\ th'[t].pc = "d_release"
                  /\ th'[t].file.found /\ th'[t].file.complete
                  /\ envConfig' = ParsedConfig(th'[t].file.pre_deploy)
       /\ \A t \in Threads :
              (th'[t].op = "deploy" /\ th'[t].err \in ConfigErrors) =>
                  envConfig' = envConfig]_vars

(* a deploy whose config lacks a required key has failed in an environment
   that holds the config of an earlier deploy, which declared hooks *)
ConfigErrorAfterStoredConfig ==
    \E t \in Threads :
        /\ th[t].pc = "done" /\ th[t].op = "deploy"
        /\ th[t].file.found /\ ~th[t].file.complete
        /\ th[t].err = "Missing required field in config"
        /\ envConfig = ParsedConfig(TRUE)

(* no invocation of deploy or rollback is running *)
NothingInProgress == \A t \in Threads : th[t].pc \in {"idle", "done"}

(* C32: whenever no deploy or rollback is in progress for an Environment
   that has an `active` Deployment, the current-release pointer refers to
   the release path of a Deployment of that Environment whose status is
   `active`. *)
LinkTargetsActiveRelease ==
    (/\ NothingInProgress
     /\ \E d \in Ids(deployments) : deployments[d].status = "active") =>
        \E d \in Ids(deployments) :
            /\ deployments[d].status = "active"
            /\ deployments[d].path # 0
            /\ deployments[d].path = current

(* the deploy of thread t has ended with a failure of a step that comes
   before the symlink switch *)
FailedBeforeSwitch(t) ==
    /\ th[t].op = "deploy" /\ th[t].pc = "done" /\ th[t].res = "raised"
    /\ th[t].dep # 0
    /\ \A i \in 1 .. Len(th[t].steps) :
           th[t].steps[i] \in {"clone", "checkout", "config", "release",
                               "runtime", "pre_hooks"}

(* C33: a deploy that fails before its symlink-switch step leaves the
   Environment's live state as it was before the call: the current-release
   pointer targets the same release and the previously active Deployment is
   still `active`. *)
EarlyFailureKeepsLiveState ==
    \A t \in Threads :
        FailedBeforeSwitch(t) =>
            /\ current = preCurrent[t]
            /\ \A d \in Ids(pre[t]) :
                   pre[t][d].status = "active" =>
                       deployments[d].status = "active"

(* C34: the release directory of the Deployment that a rollback would select
   (the most recently completed `inactive` one) is never removed by pruning,
   for any history of successful and failed deploys: at rollback time the
   target's release directory still exists. *)
RollbackTargetReleaseExists ==
    LET p == PreviousDeployment(deployments) IN
      (p # 0 /\ deployments[p].path # 0) =>
          deployments[p].path \in releases

(* C35: a run of the periodic check_deployment_health task leaves the status
   of every Deployment unchanged: it only adds HealthCheck rows and updates
   Service last-checked timestamps, and an Environment's active Deployment
   is still `active` afterwards. *)
HealthTaskKeepsStatuses ==
    [][CheckDeploymentHealth =>
           \A d \in Ids(deployments) :
               deployments'[d].status = deployments[d].status]_vars

(* C36: `failed` is absorbing: once a Deployment's status is `failed` it
   never changes again, under any interleaving of executor.deploy with the
   process_deployment task enqueued when the pending row is saved and with
   the cleanup_stuck_deployments sweep. *)
FailedIsAbsorbing ==
    [][\A d \in Ids(deployments) :
           deployments[d].status = "failed" =>
               deployments'[d].status = "failed"]_vars

(* C37: after any sequence of sequential deploys to one Environment, no two
   Services of that Environment hold the same non-null port. *)
PortsDistinctWithinEnvironment ==
    \A x \in services : \A y \in services :
        (x.env = y.env /\ x.name # y.name /\ x.port # 0) => x.port # y.port

(* two deploys have been made and both declared web services hold a port *)
TwoServicesHoldPorts ==
    /\ NothingInProgress
    /\ Len(deployments) >= 2
    /\ \E x \in services : x.env = "qa" /\ x.name = "api" /\ x.port = 9000
    /\ \E y \in services : y.env = "qa" /\ y.name = "web" /\ y.port = 9001

(* C38: web-facing Services in different Environments of the same Project
   (which run on the same host and bind 127.0.0.1) are never assigned the
   same port by the allocator. *)
AllocatedPortFreeInProject ==
    [][\A r \in services' \ services :
           \A y \in services' :
               (y.env # r.env /\ y.type = "django" /\ y.port # 0) =>
                   y.port # r.port]_vars

====
